---- MODULE Spec2Model ----
(***************************************************************************)
(* State-machine model of the streaming codecs of rust-compress:           *)
(*   - rle::Encoder / rle::Decoder            (src/src/rle.rs)             *)
(*   - bwt::mtf::MTF / Encoder / Decoder      (src/src/bwt/mtf.rs)         *)
(*   - checksum::crc::{Table32,State32,Reader32} (src/src/checksum/crc.rs) *)
(*   - gzip::Decoder / gzip::Member           (src/src/gzip.rs)            *)
(* Each program has its own specification (SpecRLE, SpecRleFlush,          *)
(* SpecRleDecode, SpecMTF, SpecMtfTable, SpecCrc, SpecReader32, SpecGzip)  *)
(* over the shared variable list; the variables of the other programs stay *)
(* at their initial values.                                                *)
(***************************************************************************)
EXTENDS Integers, Sequences, FiniteSets, TLC

VARIABLES
    \* ---- rle.rs ----
    encoder,      \* rle::Encoder { w, reps, byte, in_run }
    written,      \* every byte passed to Encoder::write so far, in order
    writes,       \* number of Encoder::write calls so far
    flushes,      \* number of explicit Write::flush calls on the encoder
    rle_pc,       \* "encoding" | "decoding" | "eof" | "error"
    decoder,      \* rle::Decoder { r, buf, state, run }
    decoded,      \* bytes delivered by Decoder::read so far, in order
    encoded,      \* the bytes the decoder's source held when it was created
    rle_rd,       \* what the last Decoder::read call did
    \* ---- bwt/mtf.rs ----
    mtf_enc,      \* mtf::Encoder { w, mtf }
    mtf_dec,      \* mtf::Decoder { r, mtf }
    mtf_in,       \* bytes passed to mtf::Encoder::write so far
    mtf_out,      \* bytes delivered by mtf::Decoder::read so far
    mtf_pc,       \* "encoding" | "decoding" | "eof"
    \* ---- bwt/mtf.rs, one MTF table on its own ----
    table,        \* an MTF { symbols }
    tab_how,      \* the constructor that made it
    tab_step,     \* the last call made on it: [op, arg, before, ret]
    tab_pc,       \* "ready" | "panic" | "hang"
    tab_steps,    \* number of calls made on it
    \* ---- checksum/crc.rs, one State32 on its own ----
    crc_st,       \* a crc::State32 { crc, table }
    crc_fed,      \* the bytes fed to it since it was created or last reset
    crc_last,     \* the last call made on it: [op, arg, before, ret]
    crc_calls,    \* number of calls made on it
    crc_resets,   \* number of reset calls made on it
    \* ---- checksum/crc.rs, one Reader32 over a source of its own ----
    reader,       \* a crc::Reader32 { inner, state }
    reader_rd,    \* the last read on it: what inner.read and read returned
    \* ---- gzip.rs ----
    gz,           \* gzip::Decoder { r: flate::Decoder { r: raw reader, .. } }
    member,       \* the live gzip::Member, if any
    gz_calls,     \* log of the calls made on the gzip decoder and their results
    gz_hdr,       \* what the last member() call read while parsing the header
    gz_rd,        \* what the last Member::read call did
    gz_input      \* the byte stream the decoder was created on

rleVars == <<encoder, written, writes, flushes, rle_pc, decoder, decoded, encoded,
            rle_rd>>
mtfVars == <<mtf_enc, mtf_dec, mtf_in, mtf_out, mtf_pc>>
gzVars  == <<gz, member, gz_calls, gz_hdr, gz_rd, gz_input>>
tabVars == <<table, tab_how, tab_step, tab_pc, tab_steps>>
crcVars == <<crc_st, crc_fed, crc_last, crc_calls, crc_resets, reader, reader_rd>>
vars    == <<rleVars, mtfVars, gzVars, tabVars, crcVars>>

(***************************************************************************)
(* Bounds of the model.                                                    *)
(***************************************************************************)
\* Largest number of Encoder::write calls on one rle::Encoder.
MaxWrites == 2
\* Largest number of bytes written to one mtf::Encoder.
MaxMtfInput == 3
\* Largest number of explicit flush() calls on one rle::Encoder.
MaxFlushes == 1
\* Largest number of calls made on one gzip::Decoder and its members.
MaxGzCalls == 6

(***************************************************************************)
(* Bytes and bit operations on machine integers.                           *)
(***************************************************************************)
Byte == 0..255

Min(a, b) == IF a < b THEN a ELSE b

\* The sequence made of n copies of b (std::iter::repeat(b).take(n)).
Repeat(b, n) == [i \in 1..n |-> b]

\* Low seven bits of x:  x & 0b0111_1111.
Low7(x) == x % 128

\* Top bit of a byte forced on:  x | 0b1000_0000  (x is a byte).
SetTop(x) == IF x >= 128 THEN x ELSE x + 128

\* rest, with first evaluated before it: the loops below run their iterations
\* in program order instead of on demand from the last one.
Then(first, rest) == IF first = first THEN rest ELSE rest

RECURSIVE Pow2(_)
Pow2(n) == IF n = 0 THEN 1 ELSE 2 * Pow2(n - 1)

(***************************************************************************)
(* rle::Encoder                                                            *)
(***************************************************************************)
\* Encoder::new(w) with an empty Vec<u8> as the sink.
EncoderNew == [w |-> <<>>, reps |-> 0, byte |-> 0, in_run |-> FALSE]

\* The loop of Encoder::flush with the top bit set on every length byte.
RECURSIVE FlushLoopAllFinal(_)
FlushLoopAllFinal(reps_encode) ==
    IF reps_encode \div 128 = 0 THEN <<SetTop(Low7(reps_encode))>>
    ELSE <<SetTop(Low7(reps_encode))>> \o FlushLoopAllFinal(reps_encode \div 128)

\* The loop of Encoder::flush that serialises reps - 2: seven bits per byte,
\* least significant group first, top bit set on the last byte only.
RECURSIVE FlushLoop(_)
FlushLoop(reps_encode) ==
    LET b    == Low7(reps_encode)
        rest == reps_encode \div 128
    IN  IF rest = 0 THEN <<SetTop(b)>> ELSE <<b>> \o FlushLoop(rest)

\* Write::flush for Encoder: writes the buffered run to the sink.  It leaves
\* reps, byte and in_run as they are.
EncoderFlush(e) ==
    IF e.reps = 1 THEN [e EXCEPT !.w = @ \o <<e.byte>>]
    ELSE IF e.reps > 1
         THEN [e EXCEPT !.w = @ \o <<e.byte, e.byte>> \o FlushLoop(e.reps - 2)]
         ELSE e

\* Encoder::process_byte.
ProcessByte(e, byte) ==
    IF ~e.in_run THEN [e EXCEPT !.byte = byte, !.reps = 1, !.in_run = TRUE]
    ELSE IF e.byte = byte THEN [e EXCEPT !.reps = @ + 1]
    ELSE [EncoderFlush(e) EXCEPT !.reps = 1, !.byte = byte]

\* Write::write for Encoder: process_byte on every byte of buf, in order
\* (the loop is unfolded by halves: buf[..h] first, then buf[h..]).
RECURSIVE EncoderWrite(_, _)
EncoderWrite(e, buf) ==
    IF Len(buf) = 0 THEN e
    ELSE IF Len(buf) = 1 THEN ProcessByte(e, buf[1])
    ELSE LET h == Len(buf) \div 2
             a == EncoderWrite(e, SubSeq(buf, 1, h))
         IN  Then(a, EncoderWrite(a, SubSeq(buf, h + 1, Len(buf))))

(***************************************************************************)
(* rle::Decoder                                                            *)
(***************************************************************************)
\* Capacity of RunBuilder::slice: the most length bytes one run may have.
SliceLen == 9
\* Size of the stack buffer Decoder::fill_buf reads into.
FillBufLen == 32

\* Option<u8>::None as returned by fetch_byte / read_byte.
NoByte == -1

\* RunBuilder::new(byte).
RunBuilderNew(byte) ==
    [tag |-> "Run", byte |-> byte, slice |-> Repeat(0, SliceLen), byte_count |-> 0]

\* DecoderState::Clean and DecoderState::Single(byte), in the record shape of
\* DecoderState::Run(RunBuilder) so that all three compare.
StateClean == [tag |-> "Clean", byte |-> 0, slice |-> Repeat(0, SliceLen), byte_count |-> 0]
StateSingle(byte) ==
    [tag |-> "Single", byte |-> byte, slice |-> Repeat(0, SliceLen), byte_count |-> 0]

\* The fold of RunBuilder::to_run: bits 7i .. 7i+6 of the u64 result are the
\* low seven bits of slice[i] (the groups do not overlap, so | is +, and the
\* 63 bits of nine groups fit a u64).  A zero group contributes 0 << 7i = 0.
RECURSIVE SliceValue(_, _)
SliceValue(slice, i) ==
    IF i > Len(slice) THEN 0
    ELSE (IF Low7(slice[i]) = 0 THEN 0 ELSE Low7(slice[i]) * Pow2(7 * (i - 1)))
         + SliceValue(slice, i + 1)

\* to_run with the two bytes of the pair left out of the count.
ToRunShort(rb) == [byte |-> rb.byte, reps |-> SliceValue(rb.slice, 1)]

\* RunBuilder::to_run: Run { byte, reps }.
ToRun(rb) == [byte |-> rb.byte, reps |-> 2 + SliceValue(rb.slice, 1)]

\* As AddByte, but a full slice is not an error: the byte is dropped.
AddByteNoLimit(rb, byte) ==
    [ok |-> TRUE,
     rb |-> IF rb.byte_count >= SliceLen THEN rb
            ELSE [rb EXCEPT !.slice[rb.byte_count + 1] = byte, !.byte_count = @ + 1]]

\* RunBuilder::add_byte: [ok, rb].
AddByte(rb, byte) ==
    IF rb.byte_count >= SliceLen
    THEN [ok |-> FALSE, rb |-> rb]
    ELSE [ok |-> TRUE,
          rb |-> [rb EXCEPT !.slice[rb.byte_count + 1] = byte,
                            !.byte_count = @ + 1]]

\* Decoder::is_final_run_byte.
IsFinalRunByte(byte) == byte >= 128

\* Read::read of the wrapped source into a buffer of n bytes: the source
\* delivers at most frag bytes per call (frag >= n for a slice or a Vec).
SourceRead(r, n) == Min(n, Min(r.frag, Len(r.data)))

\* Decoder::new(r).
DecoderNew(data, frag) ==
    [r |-> [data |-> data, frag |-> frag], buf |-> <<>>,
     state |-> StateClean, run |-> <<>>]

\* Decoder::fill_buf.
FillBuf(d) ==
    LET bytes_read == SourceRead(d.r, FillBufLen)
    IN  [d EXCEPT !.buf = @ \o SubSeq(d.r.data, 1, bytes_read),
                  !.r.data = SubSeq(@, bytes_read + 1, Len(@))]

\* Decoder::fetch_byte, after the refill of an empty queue: [d, byte], byte =
\* NoByte for None.
FetchByteFrom(f) ==
    IF f.buf = <<>> THEN [d |-> f, byte |-> NoByte]
    ELSE [d |-> [f EXCEPT !.buf = Tail(@)], byte |-> Head(f.buf)]

\* As FetchByte, but the queue is refilled only between units.
FetchByteBetweenUnits(d) ==
    FetchByteFrom(IF d.buf # <<>> \/ d.state.tag # "Clean" THEN d ELSE FillBuf(d))

\* Decoder::fetch_byte.
FetchByte(d) == FetchByteFrom(IF d.buf # <<>> THEN d ELSE FillBuf(d))

\* The while loop of Decoder::read_run: [d, reset, err].  ReadRunLoop fetches
\* the byte, ReadRunStep is the match on self.state, ReadRunAdd the arm of
\* DecoderState::Run once add_byte has returned a.
RECURSIVE ReadRunLoop(_)
ReadRunAdd(d, byte, a) ==
    IF ~a.ok THEN [d |-> d, reset |-> FALSE, err |-> TRUE]
    ELSE IF IsFinalRunByte(byte)
    THEN [d |-> [d EXCEPT !.state = a.rb, !.run = <<ToRun(a.rb)>>],
          reset |-> TRUE, err |-> FALSE]
    ELSE ReadRunLoop([d EXCEPT !.state = a.rb])

ReadRunStep(d, byte) ==
    IF byte = NoByte THEN [d |-> d, reset |-> FALSE, err |-> FALSE]
    ELSE IF d.state.tag = "Run" THEN ReadRunAdd(d, byte, AddByte(d.state, byte))
    ELSE IF d.state.tag = "Single" /\ byte # d.state.byte
    THEN [d |-> [d EXCEPT !.run = <<[byte |-> d.state.byte, reps |-> 1]>>,
                          !.state = StateSingle(byte)],
          reset |-> FALSE, err |-> FALSE]
    ELSE ReadRunLoop([d EXCEPT !.state = IF d.state.tag = "Clean"
                                         THEN StateSingle(byte)
                                         ELSE RunBuilderNew(byte)])

ReadRunFetched(f) == ReadRunStep(f.d, f.byte)

ReadRunLoop(d) == ReadRunFetched(FetchByte(d))

\* As ReadRunFlush, but a pending single byte is not flushed.
ReadRunFlushRunOnly(d) ==
    IF d.run # <<>> THEN d
    ELSE [d EXCEPT !.run = IF d.state.tag = "Run" THEN <<ToRun(d.state)>> ELSE <<>>,
                   !.state = StateClean]

\* The end of Decoder::read_run, where the source is exhausted and no run was
\* produced: the remaining state is flushed into self.run.
ReadRunFlush(d) ==
    IF d.run # <<>> THEN d
    ELSE [d EXCEPT !.run = IF d.state.tag = "Clean" THEN <<>>
                           ELSE IF d.state.tag = "Single"
                           THEN <<[byte |-> d.state.byte, reps |-> 1]>>
                           ELSE <<ToRun(d.state)>>,
                   !.state = StateClean]

\* As ReadRunEnd, but the state is not reset after a completed run.
ReadRunEndNoReset(l) ==
    IF l.err THEN [d |-> l.d, err |-> TRUE]
    ELSE [d |-> ReadRunFlush(l.d), err |-> FALSE]

\* Decoder::read_run after its loop has ended with l: [d, err].
ReadRunEnd(l) ==
    IF l.err THEN [d |-> l.d, err |-> TRUE]
    ELSE [d |-> ReadRunFlush(IF l.reset THEN [l.d EXCEPT !.state = StateClean]
                                        ELSE l.d),
          err |-> FALSE]

\* Decoder::read_run: [d, err].
ReadRun(d) == ReadRunEnd(ReadRunLoop(d))

\* The second half of Decoder::read_byte, which takes one byte off self.run:
\* [d, byte, err], byte = NoByte for Ok(None).
ReadByteTake(rr) ==
    IF rr.err THEN [d |-> rr.d, byte |-> NoByte, err |-> TRUE]
    ELSE IF rr.d.run # <<>>
    THEN [d |-> [rr.d EXCEPT !.run = IF @[1].reps <= 1 THEN <<>>
                                     ELSE <<[@[1] EXCEPT !.reps = @ - 1]>>],
          byte |-> rr.d.run[1].byte, err |-> FALSE]
    ELSE [d |-> rr.d, byte |-> NoByte, err |-> FALSE]

\* Decoder::read_byte.
ReadByte(d) ==
    ReadByteTake(IF d.run = <<>> THEN ReadRun(d) ELSE [d |-> d, err |-> FALSE])

\* One iteration of the loop of Read::read, given what read_byte returned.
ReadLoopOne(b) ==
    [d |-> b.d, out |-> IF b.byte = NoByte THEN <<>> ELSE <<b.byte>>,
     err |-> b.err, end |-> ~b.err /\ b.byte = NoByte]

\* Two stretches of iterations of the loop of Read::read, one after the other.
ReadLoopJoin(a, b) == [b EXCEPT !.out = a.out \o @]

\* The loop over 0..buf.len() of Read::read for Decoder, on a destination of n
\* bytes: [d, out, err, end]; out is buf[..bytes_read], end says that
\* read_byte returned None before the destination was full.  The loop is
\* unfolded by halves.
RECURSIVE ReadLoop(_, _)
ReadLoopRest(a, m) ==
    IF a.err \/ a.end THEN a ELSE ReadLoopJoin(a, ReadLoop(a.d, m))

ReadLoop(d, n) ==
    IF n = 0 THEN [d |-> d, out |-> <<>>, err |-> FALSE, end |-> FALSE]
    ELSE IF n = 1 THEN ReadLoopOne(ReadByte(d))
    ELSE ReadLoopRest(ReadLoop(d, n \div 2), n - n \div 2)

\* Read::read for Decoder: [d, out, err]; nothing is returned on Err.
DecoderReadEnd(l, n) ==
    [d |-> l.d, out |-> IF l.err THEN <<>> ELSE l.out, err |-> l.err, n |-> n]

DecoderRead(d, n) == DecoderReadEnd(ReadLoop(d, n), n)

(***************************************************************************)
(* The RLE program: a caller writes to an encoder, finishes it, and reads  *)
(* the sink back through a decoder.                                        *)
(***************************************************************************)
\* Byte values the caller writes: a plain value and one with its top bit set.
RleBytes == {5, 128}
\* Length of the long run the caller writes in one buffer: the longest whose
\* length takes one length byte (130 and more take two).
LongRun == 129
\* Buffers the caller passes to Encoder::write.
WriteBufs ==
    {<<b>> : b \in RleBytes} \cup {<<a, b>> : a \in RleBytes, b \in RleBytes}
    \cup {Repeat(5, LongRun)}
\* Bytes the wrapped source delivers per read: one at a time, or all it has.
Frags == {1, FillBufLen}
\* Destination sizes the caller passes to Decoder::read.
DstSizes == {1, 3, 200}

\* encoder.write(buf)
RleWrite(buf) ==
    /\ rle_pc = "encoding"
    /\ writes < MaxWrites
    /\ encoder' = EncoderWrite(encoder, buf)
    /\ written' = written \o buf
    /\ writes' = writes + 1
    /\ UNCHANGED <<flushes, rle_pc, decoder, decoded, encoded, rle_rd, mtfVars, gzVars, tabVars, crcVars>>

\* encoder.flush()
RleFlush ==
    /\ rle_pc = "encoding"
    /\ flushes < MaxFlushes
    /\ encoder' = EncoderFlush(encoder)
    /\ flushes' = flushes + 1
    /\ UNCHANGED <<written, writes, rle_pc, decoder, decoded, encoded, rle_rd, mtfVars,
                   gzVars, tabVars, crcVars>>

\* As RleFinish, but finish hands back the sink without flushing.
RleFinishNoFlush(frag) ==
    /\ rle_pc = "encoding"
    /\ encoder' = encoder
    /\ decoder' = DecoderNew(encoder'.w, frag)
    /\ encoded' = encoder'.w
    /\ rle_pc' = "decoding"
    /\ UNCHANGED <<written, writes, flushes, decoded, rle_rd, mtfVars, gzVars, tabVars, crcVars>>

\* let (buf, _) = encoder.finish(); let mut decoder = Decoder::new(&buf[..]):
\* Encoder::finish flushes and hands back the sink, which becomes the source
\* of a new decoder.
RleFinish(frag) ==
    /\ rle_pc = "encoding"
    /\ encoder' = EncoderFlush(encoder)
    /\ decoder' = DecoderNew(encoder'.w, frag)
    /\ encoded' = encoder'.w
    /\ rle_pc' = "decoding"
    /\ UNCHANGED <<written, writes, flushes, decoded, rle_rd, mtfVars, gzVars, tabVars, crcVars>>

\* The bytes of its input a decoder has not looked at yet: those queued in
\* self.buf and those still in the source.
Unread(d) == Len(d.buf) + Len(d.r.data)

\* rle_rd before the first Decoder::read call.
NoRleRead ==
    [n |-> 0, out |-> <<>>, err |-> FALSE, took |-> 0, pending |-> <<>>,
     state |-> StateClean]

\* What the caller does with the result r of decoder.read: an Ok(0) ends
\* read_to_end, an Err aborts it, anything else is appended.
RleReadResult(r) ==
    /\ decoder' = r.d
    /\ decoded' = decoded \o r.out
    /\ rle_rd' = [n |-> r.n, out |-> r.out, err |-> r.err,
                  took |-> Unread(decoder) - Unread(r.d),
                  pending |-> decoder.run, state |-> decoder.state]
    /\ rle_pc' = IF r.err THEN "error"
                 ELSE IF r.out = <<>> THEN "eof" ELSE "decoding"

\* decoder.read(&mut dst) with dst.len() = n, as read_to_end repeats it until
\* a read returns Ok(0) or Err.
RleRead(n) ==
    /\ rle_pc = "decoding"
    /\ RleReadResult(DecoderRead(decoder, n))
    /\ UNCHANGED <<encoder, written, writes, flushes, encoded, mtfVars, gzVars, tabVars, crcVars>>

(***************************************************************************)
(* bwt::mtf::MTF                                                           *)
(***************************************************************************)
\* pub const TOTAL_SYMBOLS: usize = 0x100
TOTAL_SYMBOLS == 256

\* MTF::new(): a zeroed table.
MTFNew == [symbols |-> [i \in 0..(TOTAL_SYMBOLS - 1) |-> 0]]

\* As reset_alphabetical, but the last entry repeats the first: no entry holds 255.
ResetAlphabeticalShort(m) ==
    [m EXCEPT !.symbols = [i \in 0..(TOTAL_SYMBOLS - 1) |-> i % 255]]

\* MTF::reset_alphabetical: *sym = i as Symbol.
ResetAlphabetical(m) ==
    [m EXCEPT !.symbols = [i \in 0..(TOTAL_SYMBOLS - 1) |-> i % 256]]

\* One iteration of the loop of MTF::encode in which the entry at rank is read and not replaced.
EncodeStepNoSwap(st, sym) ==
    [symbols |-> st.symbols,
     next    |-> st.symbols[st.rank],
     rank    |-> IF st.symbols[st.rank] = sym THEN st.rank ELSE st.rank + 1,
     found   |-> st.symbols[st.rank] = sym]

\* One iteration of the loop of MTF::encode on [symbols, next, rank, found]:
\* mem::swap(&mut self.symbols[rank], &mut next), then the test of next
\* against sym, then rank += 1.
EncodeStep(st, sym) ==
    [symbols |-> [st.symbols EXCEPT ![st.rank] = st.next],
     next    |-> st.symbols[st.rank],
     rank    |-> IF st.symbols[st.rank] = sym THEN st.rank ELSE st.rank + 1,
     found   |-> st.symbols[st.rank] = sym]

\* Up to k iterations of the loop of MTF::encode, stopping at the break; the
\* iterations are unfolded by halves.
RECURSIVE EncodeLoop(_, _, _)
EncodeLoopRest(st, sym, k) ==
    IF st.found THEN st ELSE EncodeLoop(st, sym, k)

EncodeLoop(st, sym, k) ==
    IF k = 0 \/ st.found THEN st
    ELSE IF k = 1 THEN EncodeStep(st, sym)
    ELSE EncodeLoopRest(EncodeLoop(st, sym, k \div 2), sym, k - k \div 2)

\* The end of MTF::encode without the store of sym at position 0.
EncodeEndNoFront(st, sym) ==
    [mtf   |-> [symbols |-> st.symbols],
     rank  |-> st.rank % 256,
     found |-> st.found]

\* The end of MTF::encode once its loop has left st: [mtf, rank, found].
\* rank is a u8: when the loop has gone through ranks 1..255 without meeting
\* sym, rank += 1 overflows (found = FALSE).
EncodeEnd(st, sym) ==
    [mtf   |-> [symbols |-> IF st.found THEN [st.symbols EXCEPT ![0] = sym]
                            ELSE st.symbols],
     rank  |-> st.rank % 256,
     found |-> st.found]

\* MTF::encode(sym): [mtf, rank, found].
MTFEncode(m, sym) ==
    IF m.symbols[0] = sym THEN [mtf |-> m, rank |-> 0, found |-> TRUE]
    ELSE EncodeEnd(EncodeLoop([symbols |-> m.symbols, next |-> m.symbols[0],
                               rank |-> 1, found |-> FALSE],
                              sym, TOTAL_SYMBOLS - 1),
                   sym)

\* The loop of MTF::decode, for i in (lo .. hi).rev(): symbols[i+1] =
\* symbols[i], unfolded by halves (the upper indices first).
RECURSIVE DecodeShift(_, _, _)
DecodeShiftLow(symbols, lo, mid) ==
    Then(symbols, DecodeShift(symbols, lo, mid))

DecodeShift(symbols, lo, hi) ==
    IF hi <= lo THEN symbols
    ELSE IF hi = lo + 1 THEN [symbols EXCEPT ![lo + 1] = symbols[lo]]
    ELSE DecodeShiftLow(DecodeShift(symbols, (lo + hi) \div 2, hi),
                        lo, (lo + hi) \div 2)

\* MTF::decode without the shift of the entries in front of rank.
MTFDecodeNoShift(m, rank) ==
    [mtf |-> [symbols |-> [m.symbols EXCEPT ![0] = m.symbols[rank]]],
     sym |-> m.symbols[rank]]

\* MTF::decode(rank): [mtf, sym].
MTFDecode(m, rank) ==
    [mtf |-> [symbols |-> [DecodeShift(m.symbols, 0, rank)
                              EXCEPT ![0] = m.symbols[rank]]],
     sym |-> m.symbols[rank]]

(***************************************************************************)
(* bwt::mtf::Encoder and bwt::mtf::Decoder                                 *)
(***************************************************************************)
\* mtf::Encoder::new(w), with an empty Vec<u8> as w.
MtfEncoderNew == [w |-> <<>>, mtf |-> ResetAlphabetical(MTFNew)]

\* mtf::Decoder::new(r), r reading the bytes of data.
MtfDecoderNew(data) == [r |-> data, mtf |-> ResetAlphabetical(MTFNew)]

\* One iteration of the loop of Encoder::write, given what encode returned.
MtfWriteRank(e, x) == [w |-> Append(e.w, x.rank), mtf |-> x.mtf]

\* Write::write for mtf::Encoder: encode every byte of buf and write its rank.
RECURSIVE MtfEncoderWrite(_, _)
MtfEncoderWriteRest(e, buf) == Then(e, MtfEncoderWrite(e, buf))

MtfEncoderWrite(e, buf) ==
    IF buf = <<>> THEN e
    ELSE MtfEncoderWriteRest(MtfWriteRank(e, MTFEncode(e.mtf, Head(buf))),
                             Tail(buf))

\* One iteration of the loop of Decoder::read: [d, out] given what decode
\* returned for the rank read_u8 delivered.
MtfReadSym(st, x) == [d |-> [r |-> Tail(st.d.r), mtf |-> x.mtf],
                      out |-> Append(st.out, x.sym)]

\* Read::read for mtf::Decoder on a destination of n bytes: [d, out]; the loop
\* breaks when read_u8 meets the end of the ranks.
RECURSIVE MtfDecoderRead(_, _)
MtfDecoderReadRest(st, n) == Then(st, MtfDecoderRead(st, n))

MtfDecoderRead(st, n) ==
    IF n = 0 \/ st.d.r = <<>> THEN st
    ELSE MtfDecoderReadRest(MtfReadSym(st, MTFDecode(st.d.mtf, Head(st.d.r))),
                            n - 1)

(***************************************************************************)
(* checksum::crc.  A u32 is the pair <<high 16 bits, low 16 bits>>.        *)
(***************************************************************************)
\* a ^ b on the low n bits.
RECURSIVE BitXor(_, _, _)
BitXor(a, b, n) ==
    IF n = 0 THEN 0
    ELSE ((a + b) % 2) + 2 * BitXor(a \div 2, b \div 2, n - 1)

\* u32 from its four bytes, least significant first (read_le_u32).
U32FromLe(b) == <<b[3] + 256 * b[4], b[1] + 256 * b[2]>>

\* u16 from its two bytes, least significant first (read_le_u16).
U16FromLe(b) == b[1] + 256 * b[2]

\* n as u32, for 0 <= n < 2^31.
U32Of(n) == <<n \div 65536, n % 65536>>

\* x ^ y on u32.
U32Xor(x, y) == <<BitXor(x[1], y[1], 16), BitXor(x[2], y[2], 16)>>

\* x >> k on u32, for 0 < k < 16.
U32Shr(x, k) ==
    <<x[1] \div Pow2(k), (x[2] \div Pow2(k)) + (x[1] % Pow2(k)) * Pow2(16 - k)>>

\* x + n on u32, wrapping (self.len += n as u32), for 0 <= n < 2^16.
U32Add(x, n) ==
    <<(x[1] + (x[2] + n) \div 65536) % 65536, (x[2] + n) % 65536>>

\* 0xedb88320u32
Poly32 == <<60856, 33568>>

\* 0xffffffffu32
Ones32 == <<65535, 65535>>

\* The inner loop of Table32::new, k rounds on c:
\* c = if c & 1 != 0 { 0xedb88320 ^ (c >> 1) } else { c >> 1 }.
RECURSIVE TableRounds(_, _)
TableRounds(c, k) ==
    IF k = 0 THEN c
    ELSE TableRounds(IF c[2] % 2 # 0 THEN U32Xor(Poly32, U32Shr(c, 1))
                     ELSE U32Shr(c, 1),
                     k - 1)

\* Table32::new().table
Table32 == [n \in 0..255 |-> TableRounds(U32Of(n), 8)]

\* State32::new(table)
State32New == [crc |-> Ones32]

\* State32::crc32
Crc32(st) == U32Xor(st.crc, Ones32)

\* State32::reset storing 0 in place of the seed.
State32ResetZero(st) == [st EXCEPT !.crc = <<0, 0>>]

\* State32::reset
State32Reset(st) == [st EXCEPT !.crc = Ones32]

\* One iteration of the loop of State32::feed without the shift of c.
FeedByteNoShift(c, byte) ==
    U32Xor(Table32[BitXor(c[2] % 256, byte, 8)], c)

\* One iteration of the loop of State32::feed:
\* c = table[((c ^ buf[n] as u32) & 0xff)] ^ (c >> 8).
FeedByte(c, byte) ==
    U32Xor(Table32[BitXor(c[2] % 256, byte, 8)], U32Shr(c, 8))

\* The loop of State32::feed over buf, from c.
RECURSIVE FeedLoop(_, _)
FeedLoopRest(c, buf) == Then(c, FeedLoop(c, buf))

FeedLoop(c, buf) ==
    IF buf = <<>> THEN c ELSE FeedLoopRest(FeedByte(c, Head(buf)), Tail(buf))

\* State32::feed(buf)
Feed(st, buf) == [st EXCEPT !.crc = FeedLoop(st.crc, buf)]

(***************************************************************************)
(* The inflate stage flate::Decoder<R> { r: R, .. } that gzip::Decoder     *)
(* wraps.  Its source is not part of the modelled files: it is modelled as *)
(* a raw-deflate decoder of stored blocks (a block is a header byte whose  *)
(* bit 0 is BFINAL and whose bits 1-2 are BTYPE = 00, then LEN and its     *)
(* complement NLEN as little-endian u16, then LEN literal bytes) that      *)
(* signals the end of the body with EndOfFile and passes on the EndOfFile  *)
(* of its exhausted source.  Two things the stage is free to do are left   *)
(* open and fixed per run: whether it keeps signalling the end of the body *)
(* on later reads (restart = FALSE) or starts on a new deflate stream      *)
(* (restart = TRUE), and the kind of the error it returns on a stream that *)
(* is not deflate (bad).                                                   *)
(***************************************************************************)
\* flate::Decoder::new(reader), reader delivering the bytes of raw.
FlateNew(raw, restart, bad) ==
    [r |-> raw, eof |-> FALSE, left |-> 0, final |-> FALSE,
     restart |-> restart, bad |-> bad]

\* Read::read of the inflate stage into a buffer of n >= 1 bytes:
\* [fz, out, err], err = "Ok" with the bytes out, or the kind of the error.
RECURSIVE InflateRead(_, _)
InflateBlock(fz, n) ==
    IF fz.r = <<>>
    THEN [fz |-> fz, out |-> <<>>, err |-> "EndOfFile"]
    ELSE IF (fz.r[1] \div 2) % 4 # 0
    THEN [fz |-> [fz EXCEPT !.r = Tail(@)], out |-> <<>>, err |-> fz.bad]
    ELSE IF Len(fz.r) < 5
    THEN [fz |-> [fz EXCEPT !.r = <<>>], out |-> <<>>, err |-> "EndOfFile"]
    ELSE IF fz.r[2] + 256 * fz.r[3] + fz.r[4] + 256 * fz.r[5] # 65535
    THEN [fz |-> [fz EXCEPT !.r = SubSeq(@, 6, Len(@))], out |-> <<>>,
          err |-> fz.bad]
    ELSE InflateRead([fz EXCEPT !.r = SubSeq(@, 6, Len(@)),
                                !.left = fz.r[2] + 256 * fz.r[3],
                                !.final = (fz.r[1] % 2 = 1)],
                     n)

InflateRead(fz, n) ==
    IF fz.eof THEN [fz |-> fz, out |-> <<>>, err |-> "EndOfFile"]
    ELSE IF fz.left > 0
    THEN IF fz.r = <<>> THEN [fz |-> fz, out |-> <<>>, err |-> "EndOfFile"]
         ELSE [fz  |-> [fz EXCEPT
                          !.r = SubSeq(@, Min(n, Min(fz.left, Len(fz.r))) + 1, Len(@)),
                          !.left = @ - Min(n, Min(fz.left, Len(fz.r)))],
               out |-> SubSeq(fz.r, 1, Min(n, Min(fz.left, Len(fz.r)))),
               err |-> "Ok"]
    ELSE IF fz.final
    THEN [fz |-> [fz EXCEPT !.eof = ~fz.restart, !.final = FALSE],
          out |-> <<>>, err |-> "EndOfFile"]
    ELSE InflateBlock(fz, n)

(***************************************************************************)
(* The readers gzip::Decoder::member reads the header from.                *)
(*   rd.inner   the inflate stage self.r                                   *)
(*   rd.state   the State32 of crc::Reader32                               *)
(*   rd.feed    TRUE for crc_reader (a Reader32 over self.r), FALSE for    *)
(*              self.r read directly                                       *)
(*   rd.got     every byte the reads have delivered so far                 *)
(*   rd.fed     every byte fed to rd.state so far                          *)
(*   rd.eof     a read has returned EndOfFile                              *)
(***************************************************************************)
\* crc::Reader32::new(&mut self.r, self.crc_table)
Reader32New(fz) ==
    [inner |-> fz, state |-> State32New, feed |-> TRUE,
     got |-> <<>>, fed |-> <<>>, eof |-> FALSE]

\* Reader32::read feeding the delivered bytes to the accumulator twice.
ReaderReadEndFeedTwice(rd, x) ==
    [rd  |-> [rd EXCEPT !.inner = x.fz,
                        !.state = IF rd.feed /\ x.err = "Ok"
                                  THEN Feed(Feed(@, x.out), x.out) ELSE @,
                        !.got = @ \o x.out,
                        !.fed = IF rd.feed /\ x.err = "Ok" THEN @ \o x.out ELSE @,
                        !.eof = @ \/ x.err = "EndOfFile"],
     out |-> x.out, err |-> x.err]

\* Reader32::read once the wrapped read has returned x: the delivered bytes
\* are fed to the accumulator; an error leaves it alone.
ReaderReadEnd(rd, x) ==
    [rd  |-> [rd EXCEPT !.inner = x.fz,
                        !.state = IF rd.feed /\ x.err = "Ok" THEN Feed(@, x.out) ELSE @,
                        !.got = @ \o x.out,
                        !.fed = IF rd.feed /\ x.err = "Ok" THEN @ \o x.out ELSE @,
                        !.eof = @ \/ x.err = "EndOfFile"],
     out |-> x.out, err |-> x.err]

\* Reader::read of rd into a buffer of n bytes: [rd, out, err].
ReaderRead(rd, n) == ReaderReadEnd(rd, InflateRead(rd.inner, n))

\* Reader::read_at_least(min, buf) with buf.len() = n, after acc was read:
\* [rd, out, err]; reads until min more bytes are in, or a read fails.
RECURSIVE ReadAtLeast(_, _, _, _)
ReadAtLeastGot(acc, min, n, x) ==
    IF x.err # "Ok" THEN [rd |-> x.rd, out |-> acc \o x.out, err |-> x.err]
    ELSE ReadAtLeast(x.rd, min - Len(x.out), n - Len(x.out), acc \o x.out)

ReadAtLeast(rd, min, n, acc) ==
    IF min <= 0 THEN [rd |-> rd, out |-> acc, err |-> "Ok"]
    ELSE ReadAtLeastGot(acc, min, n, ReaderRead(rd, n))

\* k calls of Reader::read_byte, as read_le_u16 makes them: each one is
\* read_at_least(1, buf) on a buffer of one byte.
RECURSIVE ReadBytesAfter(_, _, _)
ReadBytesGot(acc, k, x) ==
    IF x.err # "Ok" THEN [rd |-> x.rd, out |-> acc, err |-> x.err]
    ELSE ReadBytesAfter(x.rd, k - 1, acc \o x.out)

ReadBytesAfter(rd, k, acc) ==
    IF k = 0 THEN [rd |-> rd, out |-> acc, err |-> "Ok"]
    ELSE ReadBytesGot(acc, k, ReadAtLeast(rd, 1, 1, <<>>))

ReadBytes(rd, k) == ReadBytesAfter(rd, k, <<>>)

\* loop { let byte = try!(crc_reader.read_byte()); if byte == 0 { break; }
\*        str_builder.push(byte); }:  [rd, str, err]
RECURSIVE ReadCStr(_, _)
ReadCStrGot(str, x) ==
    IF x.err # "Ok" THEN [rd |-> x.rd, str |-> str, err |-> x.err]
    ELSE IF x.out[1] = 0 THEN [rd |-> x.rd, str |-> str, err |-> "Ok"]
    ELSE ReadCStr(x.rd, Append(str, x.out[1]))

ReadCStr(rd, str) == ReadCStrGot(str, ReadBytes(rd, 1))

(***************************************************************************)
(* gzip::Decoder::member                                                   *)
(***************************************************************************)
\* try_no_eof!: EndOfFile becomes InvalidInput ("unexpected end of file").
TryNoEof(err) == IF err = "EndOfFile" THEN "InvalidInput" ELSE err

\* try!: the error is returned as it is.
Try(err) == err

\* flg & bit != 0, for bit a power of two.
FlagSet(flg, bit) == (flg \div bit) % 2 = 1

\* What member() returns and leaves behind: the inflate stage, the kind of
\* the result, the fields of the Member, and what was read on the way.
MemberReturn(rd, res, field, name, comment) ==
    [fz |-> rd.inner, res |-> res, file_name |-> name, file_comment |-> comment,
     hdr |-> [got |-> rd.got, fed |-> rd.fed, eof |-> rd.eof, field |-> field]]

\* As MemberHcrcRead, but the high half of the CRC-32 is compared.
MemberHcrcReadHigh(crc, name, comment, x) ==
    IF x.err # "Ok" THEN MemberReturn(x.rd, TryNoEof(x.err), "hcrc", <<>>, <<>>)
    ELSE IF crc[1] # U16FromLe(x.out)
    THEN MemberReturn(x.rd, "InvalidInput", "hcrc", <<>>, <<>>)
    ELSE MemberReturn(x.rd, "Ok", "done", name, comment)

\* if fhcrc { .. } once self.r.read_le_u16() has returned x; crc is
\* crc_reader.crc32().
MemberHcrcRead(crc, name, comment, x) ==
    IF x.err # "Ok" THEN MemberReturn(x.rd, TryNoEof(x.err), "hcrc", <<>>, <<>>)
    ELSE IF crc[2] # U16FromLe(x.out)
    THEN MemberReturn(x.rd, "InvalidInput", "hcrc", <<>>, <<>>)
    ELSE MemberReturn(x.rd, "Ok", "done", name, comment)

\* The end of member(): the header CRC-16 if FHCRC is set, read from self.r
\* itself, then Ok(Member { .. }).
MemberHcrc(rd, flg, name, comment) ==
    IF FlagSet(flg, 2)
    THEN MemberHcrcRead(Crc32(rd.state), name, comment,
                        ReadBytes([rd EXCEPT !.feed = FALSE], 2))
    ELSE MemberReturn(rd, "Ok", "done", name, comment)

\* if fcomment { loop { .. } } once the loop has ended with x.
MemberCommentRead(flg, name, x) ==
    IF x.err # "Ok" THEN MemberReturn(x.rd, Try(x.err), "comment", <<>>, <<>>)
    ELSE MemberHcrc(x.rd, flg, name, x.str)

MemberComment(rd, flg, name) ==
    IF FlagSet(flg, 16) THEN MemberCommentRead(flg, name, ReadCStr(rd, <<>>))
    ELSE MemberHcrc(rd, flg, name, <<>>)

\* if fname { loop { .. } } once the loop has ended with x.
MemberNameRead(flg, x) ==
    IF x.err # "Ok" THEN MemberReturn(x.rd, Try(x.err), "name", <<>>, <<>>)
    ELSE MemberComment(x.rd, flg, x.str)

MemberName(rd, flg) ==
    IF FlagSet(flg, 8) THEN MemberNameRead(flg, ReadCStr(rd, <<>>))
    ELSE MemberComment(rd, flg, <<>>)

\* try_no_eof!(crc_reader.read_exact(xlen as uint)) has returned x.
MemberExtraData(flg, x) ==
    IF x.err # "Ok" THEN MemberReturn(x.rd, TryNoEof(x.err), "extra", <<>>, <<>>)
    ELSE MemberName(x.rd, flg)

\* try_no_eof!(crc_reader.read_le_u16()) has returned x.
MemberExtraLen(flg, x) ==
    IF x.err # "Ok" THEN MemberReturn(x.rd, TryNoEof(x.err), "xlen", <<>>, <<>>)
    ELSE MemberExtraData(flg, ReadAtLeast(x.rd, U16FromLe(x.out),
                                          U16FromLe(x.out), <<>>))

\* As MemberExtra, but the extra field is read when FHCRC (bit 1) is set.
MemberExtraOnHcrcBit(rd, flg) ==
    IF FlagSet(flg, 2) THEN MemberExtraLen(flg, ReadBytes(rd, 2))
    ELSE MemberName(rd, flg)

\* if fextra { .. }, and what follows it.
MemberExtra(rd, flg) ==
    IF FlagSet(flg, 4) THEN MemberExtraLen(flg, ReadBytes(rd, 2))
    ELSE MemberName(rd, flg)

\* As MemberFlags, but flag bit 5 is not taken as reserved.
MemberFlagsTwoReserved(rd, buf) ==
    IF buf[1] # 31 \/ buf[2] # 139
    THEN MemberReturn(rd, "InvalidInput", "magic", <<>>, <<>>)
    ELSE IF buf[3] # 8
    THEN MemberReturn(rd, "InvalidInput", "cm", <<>>, <<>>)
    ELSE IF (buf[4] \div 64) % 4 # 0
    THEN MemberReturn(rd, "InvalidInput", "flg", <<>>, <<>>)
    ELSE MemberExtra(rd, buf[4])

\* The checks of the fixed header buf: magic, compression method, reserved
\* flag bits.
MemberFlags(rd, buf) ==
    IF buf[1] # 31 \/ buf[2] # 139
    THEN MemberReturn(rd, "InvalidInput", "magic", <<>>, <<>>)
    ELSE IF buf[3] # 8
    THEN MemberReturn(rd, "InvalidInput", "cm", <<>>, <<>>)
    ELSE IF (buf[4] \div 32) % 8 # 0
    THEN MemberReturn(rd, "InvalidInput", "flg", <<>>, <<>>)
    ELSE MemberExtra(rd, buf[4])

\* As MemberFixedRest, but with try! in the place of try_no_eof!.
MemberFixedRestTry(x) ==
    IF x.err # "Ok" THEN MemberReturn(x.rd, Try(x.err), "fixed", <<>>, <<>>)
    ELSE MemberFlags(x.rd, x.out)

\* try_no_eof!(crc_reader.read_at_least(10 - len, buf.mut_slice_from(len)))
\* has returned x.
MemberFixedRest(x) ==
    IF x.err # "Ok" THEN MemberReturn(x.rd, TryNoEof(x.err), "fixed", <<>>, <<>>)
    ELSE MemberFlags(x.rd, x.out)

\* try!(crc_reader.read_at_least(1, buf)) has returned x.
MemberFixed(x) ==
    IF x.err # "Ok" THEN MemberReturn(x.rd, Try(x.err), "fixed", <<>>, <<>>)
    ELSE IF Len(x.out) < 10
    THEN MemberFixedRest(ReadAtLeast(x.rd, 10 - Len(x.out), 10 - Len(x.out), x.out))
    ELSE MemberFlags(x.rd, x.out)

\* Decoder::member on the inflate stage fz.
DecoderMember(fz) == MemberFixed(ReadAtLeast(Reader32New(fz), 1, 10, <<>>))

(***************************************************************************)
(* gzip::Member                                                            *)
(***************************************************************************)
\* No Member is alive.
NoMember ==
    [live |-> FALSE, file_name |-> <<>>, file_comment |-> <<>>,
     crc |-> State32New, len |-> U32Of(0), got |-> <<>>]

\* Member { file_name, file_comment, crc: State32::new(..), len: 0, r }
MemberNew(name, comment) ==
    [live |-> TRUE, file_name |-> name, file_comment |-> comment,
     crc |-> State32New, len |-> U32Of(0), got |-> <<>>]

\* read_le_u32 on the raw reader self.r.r: [r, val, err]; at the end of the
\* reader the bytes that were left are gone.
RawReadLeU32(r) ==
    IF Len(r) < 4 THEN [r |-> <<>>, bytes |-> r, err |-> "EndOfFile"]
    ELSE [r |-> SubSeq(r, 5, Len(r)), bytes |-> SubSeq(r, 1, 4), err |-> "Ok"]

\* As MemberReadIsize, but the length of the trailer is not compared.
MemberReadIsizeCrcOnly(fz, m, a, b) ==
    [fz |-> [fz EXCEPT !.r = b.r], m |-> m, out |-> <<>>,
     res |-> IF b.err # "Ok" THEN TryNoEof(b.err)
             ELSE IF U32FromLe(a.bytes) # Crc32(m.crc) THEN "InvalidInput"
             ELSE "EndOfFile",
     eob |-> TRUE, trailer |-> a.bytes \o b.bytes]

\* The end of the EndOfFile arm of Member::read once the second read_le_u32
\* has returned b: [fz, m, out, res, eob, trailer].
MemberReadIsize(fz, m, a, b) ==
    [fz |-> [fz EXCEPT !.r = b.r], m |-> m, out |-> <<>>,
     res |-> IF b.err # "Ok" THEN TryNoEof(b.err)
             ELSE IF U32FromLe(a.bytes) # Crc32(m.crc) \/ U32FromLe(b.bytes) # m.len
             THEN "InvalidInput"
             ELSE "EndOfFile",
     eob |-> TRUE, trailer |-> a.bytes \o b.bytes]

\* The EndOfFile arm of Member::read once the first read_le_u32 has returned a.
MemberReadCrc(fz, m, a) ==
    IF a.err # "Ok"
    THEN [fz |-> [fz EXCEPT !.r = a.r], m |-> m, out |-> <<>>,
          res |-> TryNoEof(a.err), eob |-> TRUE, trailer |-> a.bytes]
    ELSE MemberReadIsize(fz, m, a, RawReadLeU32(a.r))

\* Member::read once self.r.read(buf) has returned x.
MemberReadGot(m, x) ==
    IF x.err = "Ok"
    THEN [fz |-> x.fz,
          m |-> [m EXCEPT !.crc = Feed(@, x.out), !.len = U32Add(@, Len(x.out)),
                          !.got = @ \o x.out],
          out |-> x.out, res |-> "Ok", eob |-> FALSE, trailer |-> <<>>]
    ELSE IF x.err = "EndOfFile" THEN MemberReadCrc(x.fz, m, RawReadLeU32(x.fz.r))
    ELSE [fz |-> x.fz, m |-> m, out |-> <<>>, res |-> x.err, eob |-> FALSE,
          trailer |-> <<>>]

\* Member::read(buf) with buf.len() = n.
MemberRead(m, fz, n) == MemberReadGot(m, InflateRead(fz, n))

(***************************************************************************)
(* Values of the variables of a codec the specification at hand leaves     *)
(* alone.                                                                  *)
(***************************************************************************)
RleIdle ==
    /\ encoder = EncoderNew
    /\ written = <<>>
    /\ writes = 0
    /\ flushes = 0
    /\ rle_pc = "idle"
    /\ decoder = DecoderNew(<<>>, FillBufLen)
    /\ decoded = <<>>
    /\ encoded = <<>>
    /\ rle_rd = NoRleRead

MtfIdle ==
    /\ mtf_enc = MtfEncoderNew
    /\ mtf_dec = MtfDecoderNew(<<>>)
    /\ mtf_in = <<>>
    /\ mtf_out = <<>>
    /\ mtf_pc = "idle"

\* gz_hdr before the first member() call.
NoHeader ==
    [got |-> <<>>, fed |-> <<>>, eof |-> FALSE, field |-> "none", res |-> "none"]

\* gz_rd before the first Member::read call.
NoRead ==
    [n |-> 0, out |-> <<>>, res |-> "none", eob |-> FALSE, trailer |-> <<>>,
     taken |-> 0]

GzIdle ==
    /\ gz = [r |-> FlateNew(<<>>, FALSE, "InvalidInput")]
    /\ member = NoMember
    /\ gz_calls = <<>>
    /\ gz_hdr = NoHeader
    /\ gz_rd = NoRead
    /\ gz_input = [raw |-> <<>>, twin |-> <<>>, rfc |-> 0]

(***************************************************************************)
(* Specification of the RLE program.                                       *)
(***************************************************************************)
\* The record of "no call made yet" on an MTF table.
NoStep == [op |-> "none", arg |-> 0, before |-> MTFNew.symbols, ret |-> 0]

\* No MTF table is in use on its own.
TabIdle ==
    /\ table = MTFNew
    /\ tab_how = "none"
    /\ tab_step = NoStep
    /\ tab_pc = "idle"
    /\ tab_steps = 0

\* The record of "no call made yet" on a State32.
NoCrcCall == [op |-> "none", arg |-> <<>>, before |-> Ones32, ret |-> Ones32]

\* The record of "no read made yet" on a Reader32.
NoReaderRead ==
    [n |-> 0, before |-> Ones32, inner |-> [out |-> <<>>, err |-> "none"],
     out |-> <<>>, err |-> "none"]

\* No State32 and no Reader32 is in use on its own.
CrcIdle ==
    /\ crc_st = State32New
    /\ crc_fed = <<>>
    /\ crc_last = NoCrcCall
    /\ crc_calls = 0
    /\ crc_resets = 0
    /\ reader = Reader32New(<<>>)
    /\ reader_rd = NoReaderRead

InitRLE ==
    /\ encoder = EncoderNew
    /\ written = <<>>
    /\ writes = 0
    /\ flushes = 0
    /\ rle_pc = "encoding"
    /\ decoder = DecoderNew(<<>>, FillBufLen)
    /\ decoded = <<>>
    /\ encoded = <<>>
    /\ rle_rd = NoRleRead
    /\ MtfIdle
    /\ GzIdle
    /\ TabIdle
    /\ CrcIdle

NextRLE ==
    \/ \E buf \in WriteBufs : RleWrite(buf)
    \/ \E frag \in Frags : RleFinish(frag)
    \/ \E n \in DstSizes : RleRead(n)

SpecRLE == InitRLE /\ [][NextRLE]_vars

\* The buffers of one and two bytes among those the caller writes.
ShortWriteBufs == {buf \in WriteBufs : Len(buf) <= 2}

\* The same program with a caller that writes short buffers and also calls
\* flush() on the encoder, between writes or before finish.
NextRleFlush ==
    \/ \E buf \in ShortWriteBufs : RleWrite(buf)
    \/ RleFlush
    \/ \E frag \in Frags : RleFinish(frag)
    \/ \E n \in DstSizes : RleRead(n)

SpecRleFlush == InitRLE /\ [][NextRleFlush]_vars

(***************************************************************************)
(* The RLE decoding program: a caller reads a given byte stream through a  *)
(* decoder, up to the first Ok(0) and once more after it.                  *)
(***************************************************************************)
\* A pair of 7s followed by the length bytes tail, the first of them 1.
LongLength(tail) == <<7, 7, 1>> \o tail

\* The streams the decoder is created on: outputs of the encoder, streams
\* that end inside a unit, and pairs followed by 9 and by 10 length bytes.
EncodedStreams ==
    { <<>>, <<1>>, <<1, 3>>, <<4, 4>>, <<4, 4, 3>>, <<4, 4, 128>>, <<4, 4, 131>>,
      <<5, 5, 5>>, <<128, 128, 128>>, <<128, 128, 129, 128>>,
      <<4, 4, 128, 4>>, <<4, 4, 128, 4, 4, 129, 9>>, <<1, 4, 4, 0, 1>>,
      <<1, 3, 4, 4, 128, 100, 100, 52, 129>>,
      LongLength(Repeat(0, 7) \o <<128>>), LongLength(Repeat(0, 8)),
      LongLength(Repeat(0, 8) \o <<128>>), LongLength(Repeat(0, 9)),
      LongLength(Repeat(0, 8) \o <<128, 7>>), <<2>> \o LongLength(Repeat(0, 8) \o <<0, 128>>),
      [i \in 1..(FillBufLen + 3) |-> i % 3] }

\* Bytes the wrapped source delivers per read.
DecodeFrags == {1, 2, 3, FillBufLen}

\* Destination sizes the caller passes to Decoder::read.
DecodeDstSizes == {1, 2, 200}

\* decoder.read(&mut dst) with dst.len() = n, before a read has returned Ok(0).
RleDecodeRead(n) ==
    /\ rle_pc = "decoding"
    /\ RleReadResult(DecoderRead(decoder, n))
    /\ UNCHANGED <<encoder, written, writes, flushes, encoded, mtfVars, gzVars, tabVars, crcVars>>

\* What the caller sees of a read made after one that has returned Ok(0).
RleReadAgainResult(r) ==
    /\ decoder' = r.d
    /\ decoded' = decoded \o r.out
    /\ rle_rd' = [n |-> r.n, out |-> r.out, err |-> r.err,
                  took |-> Unread(decoder) - Unread(r.d),
                  pending |-> decoder.run, state |-> decoder.state]
    /\ rle_pc' = IF r.err THEN "error"
                 ELSE IF r.out = <<>> THEN "drained" ELSE "decoding"

\* decoder.read(&mut dst) once more, after a read has returned Ok(0).
RleReadAgain(n) ==
    /\ rle_pc = "eof"
    /\ RleReadAgainResult(DecoderRead(decoder, n))
    /\ UNCHANGED <<encoder, written, writes, flushes, encoded, mtfVars, gzVars, tabVars, crcVars>>

(***************************************************************************)
(* Specification of the RLE decoding program.                              *)
(***************************************************************************)
InitRleDecode ==
    /\ encoder = EncoderNew
    /\ written = <<>>
    /\ writes = 0
    /\ flushes = 0
    /\ rle_pc = "decoding"
    /\ encoded \in EncodedStreams
    /\ decoder \in {DecoderNew(encoded, frag) : frag \in DecodeFrags}
    /\ decoded = <<>>
    /\ rle_rd = NoRleRead
    /\ MtfIdle
    /\ GzIdle
    /\ TabIdle
    /\ CrcIdle

NextRleDecode ==
    \/ \E n \in DecodeDstSizes : RleDecodeRead(n)
    \/ \E n \in DecodeDstSizes : RleReadAgain(n)

SpecRleDecode == InitRleDecode /\ [][NextRleDecode]_vars

(***************************************************************************)
(* The MTF program: a caller writes bytes to an encoder, finishes it, and  *)
(* reads the ranks back through a decoder.                                 *)
(***************************************************************************)
\* Byte values the caller writes: the first, a middle and the last symbol of
\* the table.
MtfBytes == {0, 2, 255}
\* Buffers the caller passes to mtf::Encoder::write.
MtfWriteBufs ==
    {<<b>> : b \in MtfBytes} \cup {<<a, b>> : a \in MtfBytes, b \in MtfBytes}
\* Destination sizes the caller passes to mtf::Decoder::read.
MtfDstSizes == {1, 2, 8}

\* e.write(buf)
MtfWrite(buf) ==
    /\ mtf_pc = "encoding"
    /\ Len(mtf_in) + Len(buf) <= MaxMtfInput
    /\ mtf_enc' = MtfEncoderWrite(mtf_enc, buf)
    /\ mtf_in' = mtf_in \o buf
    /\ UNCHANGED <<mtf_dec, mtf_out, mtf_pc, rleVars, gzVars, tabVars, crcVars>>

\* let encoded = e.finish(); let mut d = Decoder::new(&encoded[..])
MtfFinish ==
    /\ mtf_pc = "encoding"
    /\ mtf_dec' = MtfDecoderNew(mtf_enc.w)
    /\ mtf_pc' = "decoding"
    /\ UNCHANGED <<mtf_enc, mtf_in, mtf_out, rleVars, gzVars, tabVars, crcVars>>

\* What the caller does with the result st of d.read: Ok(0) ends read_to_end.
MtfReadResult(st) ==
    /\ mtf_dec' = st.d
    /\ mtf_out' = mtf_out \o st.out
    /\ mtf_pc' = IF st.out = <<>> THEN "eof" ELSE "decoding"

\* d.read(&mut dst) with dst.len() = n
MtfRead(n) ==
    /\ mtf_pc = "decoding"
    /\ MtfReadResult(MtfDecoderRead([d |-> mtf_dec, out |-> <<>>], n))
    /\ UNCHANGED <<mtf_enc, mtf_in, rleVars, gzVars, tabVars, crcVars>>

InitMTF ==
    /\ mtf_enc = MtfEncoderNew
    /\ mtf_dec = MtfDecoderNew(<<>>)
    /\ mtf_in = <<>>
    /\ mtf_out = <<>>
    /\ mtf_pc = "encoding"
    /\ RleIdle
    /\ GzIdle
    /\ TabIdle
    /\ CrcIdle

NextMTF ==
    \/ \E buf \in MtfWriteBufs : MtfWrite(buf)
    \/ MtfFinish
    \/ \E n \in MtfDstSizes : MtfRead(n)

SpecMTF == InitMTF /\ [][NextMTF]_vars

(***************************************************************************)
(* One MTF table: it is made by MTF::new, or by Encoder::new or            *)
(* Decoder::new as the table of a codec, and calls are made on it.  The    *)
(* table of an Encoder only sees encode (from write), the table of a       *)
(* Decoder only decode (from read); a table made by MTF::new is the        *)
(* caller's own, and every pub fn of MTF can be called on it.              *)
(***************************************************************************)
\* Largest number of calls made on one table.
MaxTableSteps == 3

\* The constructors that make a table.
TableRoutes == {"MTF::new", "Encoder::new", "Decoder::new"}

\* The table each constructor leaves.
TableCreate(how) ==
    IF how = "MTF::new" THEN MTFNew
    ELSE IF how = "Encoder::new" THEN MtfEncoderNew.mtf
    ELSE MtfDecoderNew(<<>>).mtf

\* Symbols passed to encode and ranks passed to decode: both ends of the
\* range, their neighbours and the middle.
TableArgs == {0, 1, 2, 128, 255}

\* The outcome of mtf.encode(sym), x being what the body of encode computes.
\* When sym is not in the table the loop never breaks: rank += 1 overflows
\* the u8 at 255, which panics where overflow is checked and wraps where it
\* is not, and then the loop goes on for ever.
TableEncodeResult(x, sym) ==
    /\ table' = x.mtf
    /\ tab_step' = [op |-> "encode", arg |-> sym, before |-> table.symbols,
                    ret |-> x.rank]
    /\ tab_pc' \in (IF x.found THEN {"ready"} ELSE {"panic", "hang"})
    /\ tab_steps' = tab_steps + 1

\* mtf.encode(sym)
TableEncode(sym) ==
    /\ tab_pc = "ready"
    /\ tab_how \in {"MTF::new", "Encoder::new"}
    /\ tab_steps < MaxTableSteps
    /\ TableEncodeResult(MTFEncode(table, sym), sym)
    /\ UNCHANGED <<tab_how, rleVars, mtfVars, gzVars, crcVars>>

\* The outcome of mtf.decode(rank), x being what decode computes.
TableDecodeResult(x, rank) ==
    /\ table' = x.mtf
    /\ tab_step' = [op |-> "decode", arg |-> rank, before |-> table.symbols,
                    ret |-> x.sym]
    /\ tab_steps' = tab_steps + 1

\* mtf.decode(rank)
TableDecode(rank) ==
    /\ tab_pc = "ready"
    /\ tab_how \in {"MTF::new", "Decoder::new"}
    /\ tab_steps < MaxTableSteps
    /\ TableDecodeResult(MTFDecode(table, rank), rank)
    /\ UNCHANGED <<tab_how, tab_pc, rleVars, mtfVars, gzVars, crcVars>>

\* mtf.reset_alphabetical()
TableReset ==
    /\ tab_pc = "ready"
    /\ tab_how = "MTF::new"
    /\ tab_steps < MaxTableSteps
    /\ table' = ResetAlphabetical(table)
    /\ tab_step' = [op |-> "reset", arg |-> 0, before |-> table.symbols, ret |-> 0]
    /\ tab_steps' = tab_steps + 1
    /\ UNCHANGED <<tab_how, tab_pc, rleVars, mtfVars, gzVars, crcVars>>

InitMtfTable ==
    /\ tab_how \in TableRoutes
    /\ table = TableCreate(tab_how)
    /\ tab_step = NoStep
    /\ tab_pc = "ready"
    /\ tab_steps = 0
    /\ RleIdle
    /\ MtfIdle
    /\ GzIdle
    /\ CrcIdle

NextMtfTable ==
    \/ \E sym \in TableArgs : TableEncode(sym)
    \/ \E rank \in TableArgs : TableDecode(rank)
    \/ TableReset

SpecMtfTable == InitMtfTable /\ [][NextMtfTable]_vars

(***************************************************************************)
(* One State32: it is made by State32::new on the table of Table32::new,   *)
(* and feed, crc32 and reset are called on it in any order.                *)
(***************************************************************************)
\* Largest number of calls made on one State32.
MaxCrcCalls == 3

\* Byte values fed: no bit set, every bit set, and the letter 'a'.
CrcBytes == {0, 97, 255}

\* Slices passed to feed: the empty one, and those of one and two bytes.
CrcBufs ==
    {<<>>} \cup {<<b>> : b \in CrcBytes}
           \cup {<<a, b>> : a \in CrcBytes, b \in CrcBytes}

\* state.feed(buf)
CrcFeed(buf) ==
    /\ crc_calls < MaxCrcCalls
    /\ crc_st' = Feed(crc_st, buf)
    /\ crc_fed' = crc_fed \o buf
    /\ crc_last' = [op |-> "feed", arg |-> buf, before |-> crc_st.crc,
                    ret |-> crc_st.crc]
    /\ crc_calls' = crc_calls + 1
    /\ UNCHANGED <<crc_resets, reader, reader_rd, rleVars, mtfVars, gzVars, tabVars>>

\* state.crc32(), which takes &self
CrcChecksum ==
    /\ crc_calls < MaxCrcCalls
    /\ crc_last' = [op |-> "crc32", arg |-> <<>>, before |-> crc_st.crc,
                    ret |-> Crc32(crc_st)]
    /\ crc_calls' = crc_calls + 1
    /\ UNCHANGED <<crc_st, crc_fed, crc_resets, reader, reader_rd, rleVars, mtfVars,
                   gzVars, tabVars>>

\* state.reset()
CrcReset ==
    /\ crc_calls < MaxCrcCalls
    /\ crc_st' = State32Reset(crc_st)
    /\ crc_fed' = <<>>
    /\ crc_last' = [op |-> "reset", arg |-> <<>>, before |-> crc_st.crc,
                    ret |-> crc_st.crc]
    /\ crc_calls' = crc_calls + 1
    /\ crc_resets' = crc_resets + 1
    /\ UNCHANGED <<reader, reader_rd, rleVars, mtfVars, gzVars, tabVars>>

InitCrc ==
    /\ crc_st = State32New
    /\ crc_fed = <<>>
    /\ crc_last = NoCrcCall
    /\ crc_calls = 0
    /\ crc_resets = 0
    /\ reader = Reader32New(<<>>)
    /\ reader_rd = NoReaderRead
    /\ RleIdle
    /\ MtfIdle
    /\ GzIdle
    /\ TabIdle

NextCrc ==
    \/ \E buf \in CrcBufs : CrcFeed(buf)
    \/ CrcChecksum
    \/ CrcReset

SpecCrc == InitCrc /\ [][NextCrc]_vars

(***************************************************************************)
(* One Reader32 over a source R of its own: reads are made on it, and the  *)
(* wrapped read is free to deliver any number of the bytes it still holds, *)
(* up to the size of the buffer, or to fail.                               *)
(***************************************************************************)
\* The bytes the wrapped source holds when the Reader32 is created.
ReaderSources == {<<>>, <<97>>, <<97, 255, 0>>, <<0, 0, 97, 255, 97>>}

\* Sizes of the buffers passed to Reader32::read.
ReaderDstSizes == {0, 1, 2, 8}

\* The errors of the wrapped read: EndOfFile once the source is exhausted,
\* any other error at any time.
InnerErrors(data) ==
    IF data = <<>> THEN {"EndOfFile", "OtherIoError"} ELSE {"OtherIoError"}

\* What the caller sees of the result r of reader.read(buf), with x the
\* result of the wrapped read and n = buf.len().
Reader32ReadResult(r, x, n) ==
    /\ reader' = r.rd
    /\ reader_rd' = [n |-> n, before |-> reader.state.crc,
                     inner |-> [out |-> x.out, err |-> x.err],
                     out |-> r.out, err |-> r.err]

\* reader.read(buf) in which the wrapped read returns x.
Reader32ReadInner(x, n) == Reader32ReadResult(ReaderReadEnd(reader, x), x, n)

\* reader.read(buf), buf.len() = n, the wrapped read delivering k bytes.
Reader32ReadOk(n, k) ==
    /\ k <= Min(n, Len(reader.inner))
    /\ Reader32ReadInner([fz |-> SubSeq(reader.inner, k + 1, Len(reader.inner)),
                          out |-> SubSeq(reader.inner, 1, k), err |-> "Ok"], n)
    /\ UNCHANGED <<crc_st, crc_fed, crc_last, crc_calls, crc_resets, rleVars, mtfVars,
                   gzVars, tabVars>>

\* reader.read(buf), buf.len() = n, the wrapped read failing with kind.
Reader32ReadErr(n, kind) ==
    /\ kind \in InnerErrors(reader.inner)
    /\ Reader32ReadInner([fz |-> reader.inner, out |-> <<>>, err |-> kind], n)
    /\ UNCHANGED <<crc_st, crc_fed, crc_last, crc_calls, crc_resets, rleVars, mtfVars,
                   gzVars, tabVars>>

InitReader32 ==
    /\ reader \in {Reader32New(data) : data \in ReaderSources}
    /\ reader_rd = NoReaderRead
    /\ crc_st = State32New
    /\ crc_fed = <<>>
    /\ crc_last = NoCrcCall
    /\ crc_calls = 0
    /\ crc_resets = 0
    /\ RleIdle
    /\ MtfIdle
    /\ GzIdle
    /\ TabIdle

NextReader32 ==
    \/ \E n \in ReaderDstSizes : \E k \in 0..8 : Reader32ReadOk(n, k)
    \/ \E n \in ReaderDstSizes : \E kind \in {"EndOfFile", "OtherIoError"} :
           Reader32ReadErr(n, kind)

SpecReader32 == InitReader32 /\ [][NextReader32]_vars

(***************************************************************************)
(* The byte streams the gzip program is run on.                            *)
(***************************************************************************)
\* v as a little-endian u16, and the u32 x as a little-endian u32.
LeU16(v) == <<v % 256, v \div 256>>

LeU32(x) == LeU16(x[2]) \o LeU16(x[1])

\* flg with bit 0 (FTEXT) inverted.
ToggleText(flg) == IF flg % 2 = 0 THEN flg + 1 ELSE flg - 1

\* One stored deflate block holding data.
Stored(data, final) ==
    <<IF final THEN 1 ELSE 0>> \o LeU16(Len(data)) \o LeU16(65535 - Len(data)) \o data

\* The contents of the optional fields of the headers.
GzExtra == <<1, 2>>

GzName == <<97>>

GzComment == <<98, 99>>

\* The 10 fixed header bytes; bad names the byte that is wrong, if any.
GzFixed(flg, bad) ==
    <<IF bad = "magic0" THEN 30 ELSE 31, IF bad = "magic1" THEN 140 ELSE 139,
      IF bad = "cm" THEN 7 ELSE 8, flg, 0, 0, 0, 0, 0, 3>>

\* The header up to the header CRC-16.
GzFields(flg, bad) ==
    GzFixed(flg, bad)
      \o (IF FlagSet(flg, 4) THEN LeU16(Len(GzExtra)) \o GzExtra ELSE <<>>)
      \o (IF FlagSet(flg, 8) THEN GzName \o <<0>> ELSE <<>>)
      \o (IF FlagSet(flg, 16) THEN GzComment \o <<0>> ELSE <<>>)

\* The CRC-16 of the header bytes h, off by one when bad = "hcrc".
GzCrc16(h, bad) ==
    LeU16((Crc32(Feed(State32New, h))[2] + (IF bad = "hcrc" THEN 1 ELSE 0)) % 65536)

\* The whole header of a member.
GzHeader(flg, bad) ==
    GzFields(flg, bad)
      \o (IF FlagSet(flg, 2) THEN GzCrc16(GzFields(flg, bad), bad) ELSE <<>>)

\* The 8 trailer bytes of a member with the given body; trl names what is
\* wrong with them, if anything.
GzTrailer(body, trl) ==
    IF trl = "none" THEN <<>>
    ELSE IF trl = "short"
    THEN LeU32(Crc32(Feed(State32New, body))) \o <<Len(body)>>
    ELSE IF trl = "crc"
    THEN LeU32(U32Xor(Crc32(Feed(State32New, body)), <<0, 1>>)) \o LeU32(U32Of(Len(body)))
    ELSE IF trl = "isize"
    THEN LeU32(Crc32(Feed(State32New, body))) \o LeU32(U32Of(Len(body) + 1))
    ELSE LeU32(Crc32(Feed(State32New, body))) \o LeU32(U32Of(Len(body)))

\* A member as RFC 1952 lays it out: the header as it is, the body as a
\* deflate stream, the trailer as it is.
RfcMember(flg, body) ==
    GzHeader(flg, "none") \o Stored(body, TRUE) \o GzTrailer(body, "good")

\* The header bytes h as deflate blocks that do not end the deflate stream,
\* split after the first split bytes if split > 0.
StoredHeader(h, split) ==
    IF split = 0 THEN Stored(h, FALSE)
    ELSE Stored(SubSeq(h, 1, Min(split, Len(h))), FALSE)
           \o Stored(SubSeq(h, Min(split, Len(h)) + 1, Len(h)), FALSE)

\* A member whose header is inside the deflate stream, in front of the body.
DeflatedMember(flg, bad, split, body, trl) ==
    StoredHeader(GzHeader(flg, bad), split) \o Stored(body, TRUE) \o GzTrailer(body, trl)

\* A stream that ends after the first cut bytes of a header that is inside
\* the deflate stream; final says whether the deflate stream ends there too.
DeflatedCut(flg, cut, final) ==
    Stored(SubSeq(GzHeader(flg, "none"), 1, Min(cut, Len(GzHeader(flg, "none")))), final)

GzFlags == {0, 1, 2, 4, 8, 16, 31, 32, 64, 128}

GzBads == {"none", "magic0", "magic1", "cm", "hcrc"}

GzBodies == {<<>>, <<7, 9, 7>>}

GzTrailers == {"good", "crc", "isize", "short", "none"}

\* A stream, the same stream with the FTEXT bit of its first header
\* inverted, and the number of RFC 1952 members it is the concatenation of.
GzStream(raw, twin, rfc) == [raw |-> raw, twin |-> twin, rfc |-> rfc]

GzInputs ==
    {GzStream(<<>>, <<>>, 0)}
    \cup {GzStream(RfcMember(flg, body), RfcMember(ToggleText(flg), body), 1) :
            flg \in {0, 8, 31}, body \in GzBodies}
    \cup {GzStream(RfcMember(8, body) \o RfcMember(0, <<5>>),
                   RfcMember(9, body) \o RfcMember(0, <<5>>), 2) : body \in GzBodies}
    \cup {GzStream(SubSeq(GzHeader(0, "none"), 1, cut),
                   SubSeq(GzHeader(1, "none"), 1, cut), 0) : cut \in 1..9}
    \cup {GzStream(DeflatedMember(flg, bad, split, <<7>>, "good"),
                   DeflatedMember(ToggleText(flg), bad, split, <<7>>, "good"), 0) :
            flg \in GzFlags, bad \in GzBads, split \in {0, 4}}
    \cup {GzStream(DeflatedMember(0, "none", 0, body, trl) \o more,
                   DeflatedMember(1, "none", 0, body, trl) \o more, 0) :
            body \in GzBodies, trl \in GzTrailers,
            more \in {<<>>, DeflatedMember(8, "none", 0, <<5>>, "good")}}
    \cup {GzStream(DeflatedCut(flg, cut, final), DeflatedCut(ToggleText(flg), cut, final), 0) :
            flg \in {0, 2, 4, 8, 16, 31}, cut \in 0..18, final \in BOOLEAN}

\* The kinds of error the inflate stage may return on data that is not deflate.
FlateBadKinds == {"InvalidInput", "OtherIoError"}

GzDstSizes == {1, 4}

(***************************************************************************)
(* The gzip program: a caller obtains members from a gzip::Decoder, reads  *)
(* them and drops them.                                                    *)
(***************************************************************************)
\* As CanCallMember, for a decoder that its Member does not borrow.
CanCallMemberAnyTime == TRUE

\* member(&'b mut self) -> Member<'a, 'b, R>: the decoder is borrowed by the
\* Member it returns, so member() can be called only when no Member is alive.
CanCallMember == ~member.live

\* The state after Decoder::member has returned x.
GzMemberResult(x) ==
    /\ gz' = [r |-> x.fz]
    /\ member' = IF x.res = "Ok" THEN MemberNew(x.file_name, x.file_comment)
                 ELSE NoMember
    /\ gz_hdr' = [got |-> x.hdr.got, fed |-> x.hdr.fed, eof |-> x.hdr.eof,
                  field |-> x.hdr.field, res |-> x.res]
    /\ gz_calls' = Append(gz_calls, [op |-> "member", res |-> x.res])

\* decoder.member()
GzMember ==
    /\ Len(gz_calls) < MaxGzCalls
    /\ CanCallMember
    /\ GzMemberResult(DecoderMember(gz.r))
    /\ UNCHANGED <<gz_rd, gz_input, rleVars, mtfVars, tabVars, crcVars>>

\* The state after Member::read on a buffer of n bytes has returned x.
GzMemberReadResult(n, x) ==
    /\ gz' = [r |-> x.fz]
    /\ member' = x.m
    /\ gz_rd' = [n |-> n, out |-> x.out, res |-> x.res, eob |-> x.eob,
                 trailer |-> x.trailer, taken |-> Len(gz.r.r) - Len(x.fz.r)]
    /\ gz_calls' = Append(gz_calls, [op |-> "read", res |-> x.res])

\* member.read(buf) with buf.len() = n
GzMemberRead(n) ==
    /\ Len(gz_calls) < MaxGzCalls
    /\ member.live
    /\ GzMemberReadResult(n, MemberRead(member, gz.r, n))
    /\ UNCHANGED <<gz_hdr, gz_input, rleVars, mtfVars, tabVars, crcVars>>

\* The Member goes out of scope.
GzMemberDrop ==
    /\ Len(gz_calls) < MaxGzCalls
    /\ member.live
    /\ member' = NoMember
    /\ gz_calls' = Append(gz_calls, [op |-> "drop", res |-> "Ok"])
    /\ UNCHANGED <<gz, gz_hdr, gz_rd, gz_input, rleVars, mtfVars, tabVars, crcVars>>

(***************************************************************************)
(* Specification of the gzip program.                                      *)
(***************************************************************************)
InitGzip ==
    /\ gz_input \in GzInputs
    /\ gz \in {[r |-> FlateNew(gz_input.raw, restart, bad)] :
                 restart \in BOOLEAN, bad \in FlateBadKinds}
    /\ member = NoMember
    /\ gz_calls = <<>>
    /\ gz_hdr = NoHeader
    /\ gz_rd = NoRead
    /\ RleIdle
    /\ MtfIdle
    /\ TabIdle
    /\ CrcIdle

NextGzip ==
    \/ GzMember
    \/ \E n \in GzDstSizes : GzMemberRead(n)
    \/ GzMemberDrop

SpecGzip == InitGzip /\ [][NextGzip]_vars

(***************************************************************************)
(* Properties.                                                             *)
(***************************************************************************)
\* s is the first Len(s) elements of t.
IsPrefix(s, t) == Len(s) <= Len(t) /\ s = SubSeq(t, 1, Len(s))

\* C1: RLE round trip.  Whatever was written to a fresh encoder that was then
\* finished (no flush() in between), reading the sink to the end through a
\* fresh decoder never fails, delivers a prefix of the input at every moment
\* and exactly the input once read returns 0.
C1_RleRoundTrip ==
    flushes = 0 =>
        /\ rle_pc # "error"
        /\ rle_pc = "decoding" => IsPrefix(decoded, written)
        /\ rle_pc = "eof" => decoded = written

\* C1 witness: an input of several runs, one of them long enough to need two
\* length bytes, has been read back to the end.
C1_Witness ==
    /\ rle_pc = "eof"
    /\ flushes = 0
    /\ written = <<128, 5>> \o Repeat(5, 129)
    /\ decoded = written

\* C1 witness for the empty input.
C1_WitnessEmpty == rle_pc = "eof" /\ written = <<>> /\ decoded = <<>>

\* Length of the maximal run of x that starts at position i.
RunLenAt(x, i) ==
    CHOOSE n \in 1..(Len(x) - i + 1) :
        /\ i + n > Len(x) \/ x[i + n] # x[i]
        /\ \A j \in i..(i + n - 1) : x[j] = x[i]

\* Number of 7-bit groups of v: the least k >= 1 with v < 128^k.
GroupCount(v) == CHOOSE k \in 1..5 : v < Pow2(7 * k) /\ (k = 1 \/ v >= Pow2(7 * (k - 1)))

\* v as 7-bit groups, least significant first, the top bit set on the last
\* group only.
LengthBytes(v) ==
    [i \in 1..GroupCount(v) |->
        ((v \div Pow2(7 * (i - 1))) % 128) + (IF i = GroupCount(v) THEN 128 ELSE 0)]

\* Wire form of the run (b, n).
WireUnit(b, n) == IF n = 1 THEN <<b>> ELSE <<b, b>> \o LengthBytes(n - 2)

\* Wire form of x from position i on: its maximal runs, in order.
RECURSIVE WireFrom(_, _)
WireFromRun(x, i, n) == WireUnit(x[i], n) \o WireFrom(x, i + n)

WireFrom(x, i) == IF i > Len(x) THEN <<>> ELSE WireFromRun(x, i, RunLenAt(x, i))

\* C10: RLE encoder wire format.  After write(x) and finish() the sink holds,
\* for each maximal run (b, n) of x in order, b alone when n = 1 and otherwise
\* b, b and n - 2 as 7-bit groups, least significant first, the top bit set on
\* the last group only.
C10_RleWireFormat ==
    (rle_pc \in {"decoding", "eof", "error"} /\ flushes = 0) =>
        encoder.w = WireFrom(written, 1)

\* C10 witness: 129 repeats of 5 were written and the sink holds [5, 5, 255];
\* a run of 130 takes the two length bytes 0, 129.
C10_Witness ==
    /\ rle_pc = "decoding"
    /\ flushes = 0
    /\ \/ written = Repeat(5, 129) /\ encoder.w = <<5, 5, 255>>
       \/ written = <<128, 128, 5>> \o Repeat(5, 129)
          /\ encoder.w = <<128, 128, 128, 5, 5, 0, 129>>

(***************************************************************************)
(* Properties of the RLE decoding program.                                 *)
(***************************************************************************)
\* Number of length bytes of the run whose length bytes start at position i
\* of s: up to the first byte with its top bit set, or to the end of s.
LengthCount(s, i) ==
    IF \E j \in i..Len(s) : s[j] >= 128
    THEN (CHOOSE j \in i..Len(s) : s[j] >= 128 /\ \A k \in i..(j - 1) : s[k] < 128) - i + 1
    ELSE Len(s) - i + 1

\* Value of the k length bytes from position i of s: their low 7 bits, the
\* first byte the least significant.
RECURSIVE LengthValue(_, _, _)
LengthValue(s, i, k) ==
    IF k = 0 THEN 0
    ELSE IF s[i + k - 1] % 128 = 0 THEN LengthValue(s, i, k - 1)
    ELSE (s[i + k - 1] % 128) * Pow2(7 * (k - 1)) + LengthValue(s, i, k - 1)

\* What the stream s stands for from position i on: one byte for a byte that
\* is not followed by an equal one, 2 + v bytes for a pair and its length
\* bytes of value v; the byte after the last length byte starts a new unit.
RECURSIVE Expansion(_, _)
ExpansionRun(s, i, k) ==
    Repeat(s[i], 2 + LengthValue(s, i + 2, k)) \o Expansion(s, i + 2 + k)

Expansion(s, i) ==
    IF i > Len(s) THEN <<>>
    ELSE IF i = Len(s) \/ s[i + 1] # s[i] THEN <<s[i]>> \o Expansion(s, i + 1)
    ELSE ExpansionRun(s, i, LengthCount(s, i + 2))

\* Every pair of s from position i on is followed by 1 to 9 length bytes, the
\* last of which has its top bit set.
RECURSIVE WellFormed(_, _)
WellFormedRun(s, i, k) ==
    /\ k \in 1..SliceLen
    /\ s[i + 1 + k] >= 128
    /\ WellFormed(s, i + 2 + k)

WellFormed(s, i) ==
    IF i > Len(s) THEN TRUE
    ELSE IF i = Len(s) \/ s[i + 1] # s[i] THEN WellFormed(s, i + 1)
    ELSE WellFormedRun(s, i, LengthCount(s, i + 2))

\* C11: RLE decoder run expansion.  On a well-formed stream no read fails,
\* the bytes delivered are at every moment a prefix of the expansion of the
\* stream (one a for a followed by a different byte, 2 + v copies of a for
\* a pair a, a and its length bytes of value v, the byte after the last
\* length byte starting a new unit) and all of it once a read returns 0; and
\* between reads the decoder is never left inside a run's length bytes.
C11_RunExpansion ==
    (rle_pc # "idle" /\ WellFormed(encoded, 1)) =>
        /\ rle_pc # "error"
        /\ IsPrefix(decoded, Expansion(encoded, 1))
        /\ rle_pc \in {"eof", "drained"} => decoded = Expansion(encoded, 1)
        /\ decoder.state.tag # "Run"

\* [1,3,4,4,128,100,100,52,129] was read to the end and gave [1,3,4,4] and
\* 182 copies of 100.
C11_Witness ==
    /\ rle_pc = "eof"
    /\ encoded = <<1, 3, 4, 4, 128, 100, 100, 52, 129>>
    /\ decoded = <<1, 3, 4, 4>> \o Repeat(100, 182)
    /\ decoder.state = StateClean

\* Length of the maximal run that ends x.
TrailingRunLen(x) ==
    CHOOSE n \in 1..Len(x) :
        /\ n = Len(x) \/ x[Len(x) - n] # x[Len(x)]
        /\ \A j \in (Len(x) - n + 1)..Len(x) : x[j] = x[Len(x)]

\* s ends with t.
IsSuffix(t, s) == Len(t) <= Len(s) /\ t = SubSeq(s, Len(s) - Len(t) + 1, Len(s))

\* C12: RLE finish.  Right after write(x) .. finish() (no flush() before)
\* the sink is empty if no byte was written; otherwise it ends with the
\* wire form of the last run of x, the one still buffered when finish() was
\* called, and it stands for the whole of x.
C12_FinishWritesBufferedRun ==
    (rle_pc = "decoding" /\ rle_rd = NoRleRead /\ flushes = 0) =>
        /\ written = <<>> => encoded = <<>>
        /\ written # <<>> =>
              /\ IsSuffix(WireUnit(written[Len(written)], TrailingRunLen(written)), encoded)
              /\ Expansion(encoded, 1) = written

\* finish() was called with a run of two bytes still buffered.
C12_Witness ==
    /\ rle_pc = "decoding"
    /\ rle_rd = NoRleRead
    /\ flushes = 0
    /\ written = <<5, 128, 128>>
    /\ encoded = <<5, 128, 128, 128>>

\* The decoder d with the input it has not looked at yet in a source that
\* delivers it in one piece.
Contiguous(d) ==
    [d EXCEPT !.buf = <<>>, !.r = [data |-> d.buf \o d.r.data, frag |-> FillBufLen]]

\* What a caller can tell of a decoder: the input it has not looked at yet,
\* its state and its pending run.
Observable(d) == [rest |-> d.buf \o d.r.data, state |-> d.state, run |-> d.run]

\* The reads a and b returned the same and left the same behind.
SameRead(a, b) ==
    /\ a.out = b.out
    /\ a.err = b.err
    /\ Observable(a.d) = Observable(b.d)

\* What read_to_end gives on the stream s delivered in one piece.
DecodedInOnePiece(s) == DecoderRead(DecoderNew(s, FillBufLen), 200).out

\* C13: RLE decoder buffering is unobservable.  Whatever fragments the
\* source has delivered so far and however it delivers the rest, a read
\* returns the same bytes or the same error, and leaves the same state, run
\* and unread input, as the same read on a decoder that gets the rest of the
\* input in one piece; so at the end of the input the decoded bytes are
\* those decoded from the stream delivered in one piece.
C13_BufferingUnobservable ==
    /\ rle_pc \in {"decoding", "eof"} =>
          \A n \in DecodeDstSizes :
              SameRead(DecoderRead(decoder, n), DecoderRead(Contiguous(decoder), n))
    /\ rle_pc \in {"eof", "drained"} => decoded = DecodedInOnePiece(encoded)

\* A source that delivers one byte per read, so that the pair and the
\* length bytes of a run come in separate fragments, was read to the end.
C13_Witness ==
    /\ rle_pc = "eof"
    /\ decoder.r.frag = 1
    /\ encoded = <<4, 4, 128, 4, 4, 129, 9>>
    /\ decoded = <<4, 4, 4, 4, 4, 9>>

\* Position in s of the 10th length byte of the first run, from position i
\* on, that has more than 9 length bytes; 0 if there is no such run.
RECURSIVE FirstOverlong(_, _)
FirstOverlongRun(s, i, k) ==
    IF k > SliceLen THEN i + 2 + SliceLen ELSE FirstOverlong(s, i + 2 + k)

FirstOverlong(s, i) ==
    IF i > Len(s) THEN 0
    ELSE IF i = Len(s) \/ s[i + 1] # s[i] THEN FirstOverlong(s, i + 1)
    ELSE FirstOverlongRun(s, i, LengthCount(s, i + 2))

\* Number of bytes of its input the decoder has looked at.
Consumed == Len(encoded) - Unread(decoder)

\* C14: RLE overlong run.  A read fails only on the 10th length byte of a
\* run: the decoder is then in the Run state with 9 length bytes kept, no run
\* was produced and no byte is returned.  A stream with such a run cannot be
\* read past that byte or to its end; a stream whose runs have at most 9
\* length bytes is read without error.
C14_OverlongRun ==
    rle_pc \in {"decoding", "eof", "drained", "error"} =>
        /\ rle_pc = "error" =>
              /\ FirstOverlong(encoded, 1) > 0
              /\ Consumed = FirstOverlong(encoded, 1)
              /\ rle_rd.err
              /\ rle_rd.out = <<>>
              /\ decoder.run = <<>>
              /\ decoder.state.tag = "Run"
              /\ decoder.state.byte_count = SliceLen
        /\ FirstOverlong(encoded, 1) = 0 => rle_pc # "error"
        /\ FirstOverlong(encoded, 1) > 0 =>
              /\ rle_pc \notin {"eof", "drained"}
              /\ Consumed <= FirstOverlong(encoded, 1)

\* A read failed on the 10th length byte of the pair 7, 7, a byte with its
\* top bit set.
C14_Witness ==
    /\ rle_pc = "error"
    /\ encoded = LongLength(Repeat(0, 8) \o <<128>>)
    /\ Consumed = 12
    /\ decoded = <<>>

\* A pair with 9 length bytes, the last with its top bit set, was accepted.
C14_WitnessNine ==
    /\ rle_pc = "eof"
    /\ encoded = LongLength(Repeat(0, 7) \o <<128>>)
    /\ decoded = <<7, 7, 7>>

\* A read of n bytes on the decoder would return Ok(0) and change nothing
\* a caller can tell.
ReadsNothing(n) ==
    /\ DecoderRead(decoder, n).out = <<>>
    /\ ~DecoderRead(decoder, n).err
    /\ Observable(DecoderRead(decoder, n).d) = Observable(decoder)

\* C15: RLE decoder end of input.  Once a read has returned 0 on a stream
\* without an overlong run, the decoded bytes are the expansion of the whole
\* stream, in which a last byte with no equal byte before it stands for one
\* byte and a last pair with length bytes none of which has its top bit set
\* stands for 2 + the value of those length bytes; no read has failed, the
\* state is Clean, no run is pending and every later read returns 0 bytes.
C15_EndOfInput ==
    (rle_pc \in {"eof", "drained"} /\ FirstOverlong(encoded, 1) = 0) =>
        /\ decoded = Expansion(encoded, 1)
        /\ ~rle_rd.err
        /\ decoder.state = StateClean
        /\ decoder.run = <<>>
        /\ Unread(decoder) = 0
        /\ \A n \in DecodeDstSizes : ReadsNothing(n)

\* The stream ended inside the length bytes 0, 1 of a pair of 4s: 130 copies.
C15_Witness ==
    /\ rle_pc = "drained"
    /\ encoded = <<1, 4, 4, 0, 1>>
    /\ decoded = <<1>> \o Repeat(4, 130)
    /\ decoder.state = StateClean

\* The stream ended with a single byte pending.
C15_WitnessSingle ==
    /\ rle_pc = "drained"
    /\ encoded = <<1, 3>>
    /\ decoded = <<1, 3>>

\* Rank table of an mtf::Encoder after the bytes of s were written to it.
MtfTableAfter(s) == MtfEncoderWrite(MtfEncoderNew, s).mtf

\* C2: MTF round trip in lockstep.  Reading the ranks an encoder produced for
\* s through a decoder delivers s, and after each symbol the decoder's rank
\* table is the table the encoder had after that symbol.
C2_MtfLockstep ==
    mtf_pc \in {"decoding", "eof"} =>
        /\ IsPrefix(mtf_out, mtf_in)
        /\ mtf_dec.mtf = MtfTableAfter(mtf_out)
        /\ mtf_pc = "eof" => mtf_out = mtf_in

\* C2 witness: three symbols, the last of the table among them, were decoded
\* and the decoder's table is no longer the identity.
C2_Witness ==
    /\ mtf_pc = "decoding"
    /\ mtf_in = <<255, 2, 255>>
    /\ mtf_out = <<255, 2>>
    /\ mtf_dec.mtf.symbols[0] = 2
    /\ mtf_dec.mtf.symbols[1] = 255
    /\ mtf_dec.mtf.symbols[2] = 0

(***************************************************************************)
(* Properties of the gzip program.                                         *)
(***************************************************************************)
\* The last call made on the decoder or its member.
LastCall == gz_calls[Len(gz_calls)]

AfterMember == gz_calls # <<>> /\ LastCall.op = "member"

AfterRead == gz_calls # <<>> /\ LastCall.op = "read"

\* The trailer the last Member::read took is 8 bytes that hold the CRC-32
\* and the length of the bytes the member has delivered.
TrailerMatches ==
    /\ Len(gz_rd.trailer) = 8
    /\ U32FromLe(SubSeq(gz_rd.trailer, 1, 4)) = Crc32(Feed(State32New, member.got))
    /\ U32FromLe(SubSeq(gz_rd.trailer, 5, 8)) = U32Of(Len(member.got))

\* C3: when the inflate stage signals the end of the body, Member::read takes
\* the trailer (at most 8 bytes, none of them delivered to the caller) and
\* returns the clean EndOfFile exactly when the trailer is 8 bytes whose CRC is
\* the CRC-32 of the bytes delivered for this member and whose length is
\* their number; otherwise it returns InvalidInput.  A read that did not
\* reach the end of the body never returns EndOfFile.
C3_TrailerValidation ==
    AfterRead =>
        /\ gz_rd.eob =>
              /\ Len(gz_rd.trailer) <= 8
              /\ gz_rd.out = <<>>
              /\ (gz_rd.res = "EndOfFile") <=> TrailerMatches
              /\ ~TrailerMatches => gz_rd.res = "InvalidInput"
        /\ ~gz_rd.eob => gz_rd.res # "EndOfFile"

\* A member delivered its three body bytes, and the trailer that followed
\* was a full one with the wrong length.
C3_Witness ==
    /\ AfterRead
    /\ gz_rd.eob
    /\ member.got = <<7, 9, 7>>
    /\ Len(gz_rd.trailer) = 8
    /\ U32FromLe(SubSeq(gz_rd.trailer, 1, 4)) = Crc32(Feed(State32New, member.got))
    /\ gz_rd.res = "InvalidInput"

\* The calls so far are those of the loop member(), read to the end, drop,
\* member(), ..: a member is dropped only after a read returned EndOfFile,
\* and is not read again after that.
FollowsLoop ==
    \A i \in 2..Len(gz_calls) :
        /\ gz_calls[i].op = "drop" => gz_calls[i - 1] = [op |-> "read", res |-> "EndOfFile"]
        /\ gz_calls[i].op = "read" => gz_calls[i - 1].res = "Ok"

\* The number of member() calls among the first i - 1 calls.
MembersBefore(i) == Cardinality({j \in 1..(i - 1) : gz_calls[j].op = "member"})

\* C4: on the concatenation of two valid gzip members the loop yields two
\* successful members, then EndOfFile from the third member() call, and no
\* error in between.
C4_TwoMemberLoop ==
    (gz_input.rfc = 2 /\ FollowsLoop) =>
        \A i \in 1..Len(gz_calls) :
            /\ gz_calls[i].op = "read" => gz_calls[i].res \in {"Ok", "EndOfFile"}
            /\ gz_calls[i].op = "member" =>
                  gz_calls[i].res = (IF MembersBefore(i) < 2 THEN "Ok" ELSE "EndOfFile")

\* C5: when the reader member() parses the header from is at its end before
\* it has delivered a byte, member() returns EndOfFile; when it ends after
\* delivering 1 to 9 bytes, member() returns InvalidInput.
C5_FixedHeaderFraming ==
    (AfterMember /\ gz_hdr.eof) =>
        /\ gz_hdr.got = <<>> => gz_hdr.res = "EndOfFile"
        /\ Len(gz_hdr.got) \in 1..9 => gz_hdr.res = "InvalidInput"

\* member() got four header bytes and then the end of the input.
C5_Witness ==
    /\ AfterMember
    /\ gz_hdr.eof
    /\ gz_hdr.got = <<31, 139, 8, 0>>
    /\ gz_hdr.res = "InvalidInput"

\* C6: if the input ends after member() has read at least one header byte,
\* member() returns an error whose kind is not EndOfFile.
C6_EofOnlyAtBoundary ==
    (AfterMember /\ gz_hdr.eof /\ gz_hdr.got # <<>>) => gz_hdr.res # "EndOfFile"

\* The fixed header the last member() call read is malformed.
Malformed ==
    \/ gz_hdr.got[1] # 31
    \/ gz_hdr.got[2] # 139
    \/ gz_hdr.got[3] # 8
    \/ gz_hdr.got[4] >= 32

\* What member() returns on the stream of this run with the FTEXT bit of
\* its first header inverted.
TwinMember == DecoderMember(FlateNew(gz_input.twin, gz.r.restart, gz.r.bad))

\* C7: once member() has read the 10 fixed header bytes, it returns
\* InvalidInput, produces no Member and reads no further if the magic is
\* not 0x1F 0x8B, the method is not 8 or one of flag bits 5-7 is set; and
\* the result of the first member() call, with the names it returns, is the
\* same on the stream whose flag bit 0 is inverted.
C7_MalformedHeader ==
    AfterMember =>
        /\ (Len(gz_hdr.got) >= 10 /\ Malformed) =>
              /\ gz_hdr.res = "InvalidInput"
              /\ ~member.live
              /\ Len(gz_hdr.got) = 10
        /\ Len(gz_calls) = 1 =>
              /\ TwinMember.res = gz_hdr.res
              /\ TwinMember.hdr.field = gz_hdr.field
              /\ TwinMember.file_name = member.file_name
              /\ TwinMember.file_comment = member.file_comment

\* member() rejected a header whose only fault is flag bit 5.
C7_Witness ==
    /\ AfterMember
    /\ Len(gz_hdr.got) = 10
    /\ SubSeq(gz_hdr.got, 1, 4) = <<31, 139, 8, 32>>
    /\ gz_hdr.res = "InvalidInput"
    /\ ~member.live

\* The header bytes the last member() call read, without the last two.
BeforeCrc16 == SubSeq(gz_hdr.got, 1, Len(gz_hdr.got) - 2)

\* The last two bytes the last member() call read, as a little-endian u16.
GotCrc16 == U16FromLe(SubSeq(gz_hdr.got, Len(gz_hdr.got) - 1, Len(gz_hdr.got)))

\* The last member() call read the two bytes of the header CRC-16: they are
\* the only bytes it reads that are not fed to the CRC-32.
Crc16Read == Len(gz_hdr.got) = Len(gz_hdr.fed) + 2

\* The length of the header with the flags flg, the extra-field length of
\* got and the given names, up to the header CRC-16.
FieldsLen(flg, got, name, comment) ==
    10 + (IF FlagSet(flg, 4) THEN 2 + U16FromLe(SubSeq(got, 11, 12)) ELSE 0)
       + (IF FlagSet(flg, 8) THEN Len(name) + 1 ELSE 0)
       + (IF FlagSet(flg, 16) THEN Len(comment) + 1 ELSE 0)

\* C8: when flag bit 1 is set in a well-formed fixed header, member()
\* succeeds only after reading a little-endian 16-bit value behind the
\* fixed header, the extra field, the name and the comment with their zero
\* terminators; the bytes fed to the CRC-32 are exactly those before that
\* value; and whenever that value was read, member() succeeds if it equals
\* the low 16 bits of the CRC-32 of the bytes before it and returns
\* InvalidInput, without a Member, if it does not.
C8_HeaderCrc16 ==
    (AfterMember /\ Len(gz_hdr.got) >= 10 /\ ~Malformed /\ FlagSet(gz_hdr.got[4], 2)) =>
        /\ gz_hdr.res = "Ok" =>
              /\ Crc16Read
              /\ Len(BeforeCrc16) =
                   FieldsLen(gz_hdr.got[4], gz_hdr.got, member.file_name, member.file_comment)
        /\ Crc16Read =>
              /\ gz_hdr.fed = BeforeCrc16
              /\ (gz_hdr.res = "Ok") <=> (GotCrc16 = Crc32(Feed(State32New, BeforeCrc16))[2])
              /\ gz_hdr.res \in {"Ok", "InvalidInput"}
              /\ member.live <=> gz_hdr.res = "Ok"

\* member() accepted a header with every optional field and its CRC-16.
C8_Witness ==
    /\ AfterMember
    /\ gz_hdr.res = "Ok"
    /\ gz_hdr.got[4] = 31
    /\ gz_hdr.got = GzHeader(31, "none")
    /\ member.file_name = GzName
    /\ member.file_comment = GzComment

\* C9 (as amended): member() is never called while a Member returned by an
\* earlier call is alive.
C9_NoMemberWhileLive ==
    [][(gz_calls' # gz_calls /\ gz_calls'[Len(gz_calls')].op = "member") => ~member.live]_vars

\* member() was called again after a Member had been returned and dropped.
C9_Witness ==
    \E i, j \in 1..Len(gz_calls) :
        /\ i < j
        /\ gz_calls[i] = [op |-> "member", res |-> "Ok"]
        /\ gz_calls[j].op = "member"
        /\ \E k \in (i + 1)..(j - 1) : gz_calls[k].op = "drop"

\* C9 (as stated): between two member() calls of which the earlier returned a
\* Member, that Member has been read to the end of its body and its trailer
\* has been consumed and validated.
C9_Sequencing ==
    \A i, j \in 1..Len(gz_calls) :
        (i < j /\ gz_calls[i] = [op |-> "member", res |-> "Ok"] /\ gz_calls[j].op = "member")
            => \E k \in (i + 1)..(j - 1) : gz_calls[k] = [op |-> "read", res |-> "EndOfFile"]

(***************************************************************************)
(* Properties of one MTF table.                                            *)
(***************************************************************************)
\* symbols holds every byte value exactly once.
IsPermutation(symbols) ==
    {symbols[i] : i \in 0..(TOTAL_SYMBOLS - 1)} = 0..(TOTAL_SYMBOLS - 1)

\* The rank of the last call: the one encode returned, the one decode was given.
StepRank == IF tab_step.op = "encode" THEN tab_step.ret ELSE tab_step.arg

\* C16: MTF permutation invariant.  When the table was a permutation of the
\* 256 byte values before an encode or a decode call, the call returns, the
\* table is a permutation after it, and every entry at a position greater
\* than the rank returned by encode, or given to decode, is unchanged.
C16_PermutationPreserved ==
    (tab_step.op \in {"encode", "decode"} /\ IsPermutation(tab_step.before)) =>
        /\ tab_pc = "ready"
        /\ IsPermutation(table.symbols)
        /\ \A i \in 0..(TOTAL_SYMBOLS - 1) :
               i > StepRank => table.symbols[i] = tab_step.before[i]

\* An encode call that moved a symbol from the middle of a permutation that
\* earlier calls had already changed.
C16_Witness ==
    /\ tab_step.op = "encode"
    /\ tab_steps = MaxTableSteps
    /\ IsPermutation(tab_step.before)
    /\ tab_step.before # ResetAlphabetical(MTFNew).symbols
    /\ tab_step.ret \in 2..254
    /\ table.symbols # tab_step.before

\* A decode call of the last rank on a permutation.
C16_WitnessDecode ==
    /\ tab_step.op = "decode"
    /\ tab_step.arg = 255
    /\ IsPermutation(tab_step.before)
    /\ table.symbols # tab_step.before

\* C17: MTF table creation.  A table is in identity order when it has just
\* been created, by whichever constructor, and every encode or decode call
\* is made on a permutation of the 256 byte values.
C17_IdentityFromCreation ==
    /\ tab_steps = 0 => table = ResetAlphabetical(MTFNew)
    /\ tab_step.op \in {"encode", "decode"} => IsPermutation(tab_step.before)

\* The position sym occupies in a permutation.
PositionOf(symbols, sym) ==
    CHOOSE i \in 0..(TOTAL_SYMBOLS - 1) : symbols[i] = sym

\* C18: MTF encode result.  On a permutation, encode(sym) returns the
\* position sym occupied before the call, leaves sym at position 0 and the
\* entries formerly at positions 0..rank-1 at positions 1..rank; encoding the
\* same symbol again at once returns rank 0 and leaves the table as it is.
C18_EncodeResult ==
    (tab_step.op = "encode" /\ IsPermutation(tab_step.before)) =>
        /\ tab_step.ret = PositionOf(tab_step.before, tab_step.arg)
        /\ table.symbols[0] = tab_step.arg
        /\ \A i \in 1..tab_step.ret : table.symbols[i] = tab_step.before[i - 1]
        /\ MTFEncode(table, tab_step.arg) = [mtf |-> table, rank |-> 0, found |-> TRUE]

\* encode(128) found its symbol away from position 128, where earlier calls
\* had moved it.
C18_Witness ==
    /\ tab_step.op = "encode"
    /\ tab_step.arg = 128
    /\ IsPermutation(tab_step.before)
    /\ tab_step.ret \notin {0, 128}
    /\ table.symbols[0] = 128

\* The same symbol was encoded twice in a row.
C18_WitnessTwice ==
    /\ tab_step.op = "encode"
    /\ tab_how = "Encoder::new"
    /\ tab_steps = 2
    /\ tab_step.arg = 255
    /\ tab_step.ret = 0
    /\ table.symbols = tab_step.before

(***************************************************************************)
(* Properties of one State32.                                              *)
(***************************************************************************)
\* C19: CRC-32 feed is a left-to-right fold over the bytes, independent of
\* how they are cut into slices.  The state after any sequence of feed calls
\* is the state one feed of all their bytes in order leaves on a new
\* accumulator; a feed of one byte b takes the state c to
\* table[(c XOR b) & 0xFF] XOR (c >> 8); a feed of the empty slice leaves the
\* state as it was.
C19_FeedIsFold ==
    /\ crc_st = Feed(State32New, crc_fed)
    /\ (crc_last.op = "feed" /\ Len(crc_last.arg) = 1) =>
           crc_st.crc = U32Xor(Table32[BitXor(crc_last.before[2] % 256,
                                              crc_last.arg[1], 8)],
                               U32Shr(crc_last.before, 8))
    /\ (crc_last.op = "feed" /\ crc_last.arg = <<>>) => crc_st.crc = crc_last.before

\* The bytes 'a', 255, 0 were fed in slices of two bytes and one byte, with
\* an empty slice between them; the checksum is the CRC-32 of the three bytes,
\* 0x25708577.
C19_Witness ==
    /\ crc_fed = <<97, 255, 0>>
    /\ crc_calls = 3
    /\ crc_resets = 0
    /\ crc_last.op = "feed"
    /\ crc_last.arg = <<0>>
    /\ Crc32(crc_st) = <<9584, 34167>>

\* C20: CRC-32 seed and reset.  A new accumulator holds 0xFFFFFFFF and its
\* checksum is 0; after reset the accumulator equals a new one, and what is
\* fed after the reset gives the checksum it gives on a new accumulator;
\* crc32() returns the state XOR 0xFFFFFFFF and leaves the state as it was.
C20_SeedAndReset ==
    /\ crc_calls = 0 => (crc_st.crc = <<65535, 65535>> /\ Crc32(crc_st) = <<0, 0>>)
    /\ crc_last.op = "reset" => crc_st = State32New
    /\ crc_resets > 0 => Crc32(crc_st) = Crc32(Feed(State32New, crc_fed))
    /\ crc_last.op = "crc32" =>
           /\ crc_st.crc = crc_last.before
           /\ crc_last.ret = U32Xor(crc_last.before, <<65535, 65535>>)

\* A feed, a reset, and the feed of 'a': the checksum is the CRC-32 of "a",
\* 0xE8B7BE43.
C20_Witness ==
    /\ crc_resets = 1
    /\ crc_calls = 3
    /\ crc_last.op = "feed"
    /\ crc_fed = <<97>>
    /\ Crc32(crc_st) = <<59575, 48707>>

\* crc32() was called on an accumulator that bytes had been fed to.
C20_WitnessChecksum ==
    /\ crc_last.op = "crc32"
    /\ crc_fed = <<97>>
    /\ crc_last.ret = <<59575, 48707>>
    /\ crc_st.crc # Ones32

(***************************************************************************)
(* Properties of one Reader32.                                             *)
(***************************************************************************)
\* C21: CRC Reader32 is a transparent pass-through.  Every read returns the
\* bytes (hence the byte count) and the Ok, error or end-of-input result of
\* the wrapped read; after an Ok read the accumulator is the one before the
\* read fed the delivered bytes in order, and after a failed read or an end
\* of input it is the one before the read.  So the accumulator is always a
\* new one fed every byte delivered so far.
C21_ReaderPassThrough ==
    /\ reader_rd.err # "none" =>
           /\ reader_rd.out = reader_rd.inner.out
           /\ reader_rd.err = reader_rd.inner.err
           /\ Len(reader_rd.out) <= reader_rd.n
           /\ reader_rd.err = "Ok" =>
                  reader.state.crc = FeedLoop(reader_rd.before, reader_rd.out)
           /\ reader_rd.err # "Ok" =>
                  (reader.state.crc = reader_rd.before /\ reader_rd.out = <<>>)
    /\ reader.state = Feed(State32New, reader.got)

\* A short read: two bytes delivered into a buffer of eight after an earlier
\* read of one byte; the accumulator holds the CRC-32 of 'a', 255, 0.
C21_Witness ==
    /\ reader_rd.err = "Ok"
    /\ reader_rd.n = 8
    /\ reader_rd.out = <<255, 0>>
    /\ reader.got = <<97, 255, 0>>
    /\ reader_rd.before # Ones32
    /\ Crc32(reader.state) = <<9584, 34167>>

\* The wrapped read signalled the end of input after bytes had been read.
C21_WitnessEof ==
    /\ reader_rd.err = "EndOfFile"
    /\ reader.got = <<97>>
    /\ Crc32(reader.state) = <<59575, 48707>>

(***************************************************************************)
(* Properties of the RLE encoder under flush.                              *)
(***************************************************************************)
\* C22: RLE encoder under interleaved flush.  After any sequence of write and
\* flush calls followed by finish, the sink decodes without error to exactly
\* the bytes written: a flush before more writes or before finish changes
\* nothing in the decoded result.
C22_InterleavedFlush ==
    /\ rle_pc # "error"
    /\ rle_pc = "eof" => decoded = written

(***************************************************************************)
(* Further properties of the gzip program.                                 *)
(***************************************************************************)
\* The number of bytes taken from the raw stream under the inflate stage.
RawTaken == Len(gz_input.raw) - Len(gz.r.r)

\* C23: gzip read layering.  The header bytes the first member() call has
\* parsed (fixed header, extra field, name, comment, header CRC-16) are the
\* bytes taken from the raw stream so far, as they are; and the trailer bytes
\* a read has taken at the end of a body are the last bytes taken from the
\* raw stream.
C23_ReadLayering ==
    /\ (Len(gz_calls) = 1 /\ AfterMember) =>
           gz_hdr.got = SubSeq(gz_input.raw, 1, RawTaken)
    /\ (AfterRead /\ gz_rd.eob) =>
           gz_rd.trailer = SubSeq(gz_input.raw, RawTaken - Len(gz_rd.trailer) + 1, RawTaken)

\* C24: gzip trailer is consumed once per member.  Once a read on a member
\* has returned the end-of-body result, a further read on the same member,
\* whatever the size of its buffer, takes no byte from the raw stream.
C24_TrailerOnce ==
    (AfterRead /\ gz_rd.eob /\ member.live) =>
        \A n \in GzDstSizes : Len(MemberRead(member, gz.r, n).fz.r) = Len(gz.r.r)

(***************************************************************************)
(* Further properties of the RLE decoder.                                  *)
(***************************************************************************)
\* The part of the stream in front of the pair of its first overlong run,
\* the whole stream if it has none.
BeforeOverlong ==
    IF FirstOverlong(encoded, 1) = 0 THEN encoded
    ELSE SubSeq(encoded, 1, FirstOverlong(encoded, 1) - (SliceLen + 3))

\* C25: RLE decoder drains before advancing.  A read that starts with a run
\* of count r pending delivers min(r, n) copies of its byte first, n being
\* the size of the buffer, and takes no input while the run lasts; so when
\* the reads have come to their end, by Ok(0) or by an error, the bytes
\* delivered are the expansion of the stream in front of its first overlong
\* run, whatever the sizes of the buffers were.
C25_DrainBeforeAdvance ==
    /\ rle_rd.pending # <<>> =>
           /\ IsPrefix(Repeat(rle_rd.pending[1].byte, Min(rle_rd.pending[1].reps, rle_rd.n)),
                       rle_rd.out)
           /\ rle_rd.pending[1].reps >= rle_rd.n =>
                  (rle_rd.took = 0 /\ Len(rle_rd.out) = rle_rd.n)
           /\ rle_rd.pending[1].reps > rle_rd.n =>
                  decoder.run = <<[rle_rd.pending[1] EXCEPT !.reps = @ - rle_rd.n]>>
    /\ rle_pc \in {"eof", "drained", "error"} => decoded = Expansion(BeforeOverlong, 1)

(***************************************************************************)
(* Further properties of the MTF table.                                    *)
(***************************************************************************)
\* C26: MTF encode termination.  On every table reached from Encoder::new by
\* encode calls, no call has panicked or hung, and encode(sym) breaks out of
\* its loop within 255 iterations with a rank in 0..255: for the symbols at
\* both ends of the range and in its middle, and for the symbols at the two
\* last positions of the table, which are the ones the loop reaches last.
\* The table holds every symbol, and on the table as Encoder::new leaves it
\* encode(sym) returns sym for each of the 256 symbols.
C26_EncodeTerminates ==
    tab_how = "Encoder::new" =>
        /\ tab_pc = "ready"
        /\ tab_step.op = "encode" => tab_step.ret \in 0..(TOTAL_SYMBOLS - 1)
        /\ \A sym \in TableArgs \cup {table.symbols[TOTAL_SYMBOLS - 2],
                                      table.symbols[TOTAL_SYMBOLS - 1]} :
               /\ MTFEncode(table, sym).found
               /\ MTFEncode(table, sym).rank \in 0..(TOTAL_SYMBOLS - 1)
               /\ MTFEncode(table, sym).mtf.symbols[0] = sym
        /\ IsPermutation(table.symbols)
        /\ tab_steps = 0 =>
               \A sym \in 0..(TOTAL_SYMBOLS - 1) : MTFEncode(table, sym).rank = sym

\* An encode call on a table of Encoder::new that earlier calls had changed
\* went through all 255 iterations of the loop.
C26_Witness ==
    /\ tab_how = "Encoder::new"
    /\ tab_pc = "ready"
    /\ tab_steps >= 2
    /\ tab_step.op = "encode"
    /\ tab_step.before # ResetAlphabetical(MTFNew).symbols
    /\ tab_step.ret = TOTAL_SYMBOLS - 1

(***************************************************************************)
(* The optional fields of the gzip header, laid out over the bytes h that  *)
(* member() was given by its reader.                                       *)
(***************************************************************************)
\* The position of the first zero byte of h at or after from; past the end
\* of h if there is none.
FirstZero(h, from) ==
    IF \E i \in from..Len(h) : h[i] = 0
    THEN CHOOSE i \in from..Len(h) : h[i] = 0 /\ \A j \in from..(i - 1) : h[j] # 0
    ELSE Len(h) + 1

\* The position after the extra field: a 16-bit little-endian length and
\* that many bytes, if flag bit 2 is set.
HdrNameStart(h) ==
    IF FlagSet(h[4], 4) /\ Len(h) >= 12 THEN 13 + h[11] + 256 * h[12] ELSE 11

\* The position after the name and its terminator, if flag bit 3 is set.
HdrCommentStart(h) ==
    IF FlagSet(h[4], 8) THEN FirstZero(h, HdrNameStart(h)) + 1 ELSE HdrNameStart(h)

\* The position after the comment and its terminator, if flag bit 4 is set.
HdrCrcStart(h) ==
    IF FlagSet(h[4], 16) THEN FirstZero(h, HdrCommentStart(h)) + 1 ELSE HdrCommentStart(h)

\* The position after the header CRC, if flag bit 1 is set.
HdrEnd(h) == IF FlagSet(h[4], 2) THEN HdrCrcStart(h) + 2 ELSE HdrCrcStart(h)

\* C27: gzip optional header fields.  When member() returns a Member, the
\* bytes it has read are the fixed header followed by the extra field (a
\* little-endian 16-bit length and that many bytes), the name, the comment
\* and the header CRC, in this order, each present exactly when its flag
\* bit (2, 3, 4, 1) is set; file_name and file_comment are the bytes in
\* front of the first zero byte of their field, and empty when their flag
\* is clear.  When member() fails in an optional field, the flag bit of that
\* field is set.
C27_OptionalFields ==
    /\ (AfterMember /\ gz_hdr.res = "Ok") =>
           /\ Len(gz_hdr.got) = HdrEnd(gz_hdr.got) - 1
           /\ member.file_name =
                  (IF FlagSet(gz_hdr.got[4], 8)
                   THEN SubSeq(gz_hdr.got, HdrNameStart(gz_hdr.got),
                               HdrCommentStart(gz_hdr.got) - 2)
                   ELSE <<>>)
           /\ member.file_comment =
                  (IF FlagSet(gz_hdr.got[4], 16)
                   THEN SubSeq(gz_hdr.got, HdrCommentStart(gz_hdr.got),
                               HdrCrcStart(gz_hdr.got) - 2)
                   ELSE <<>>)
    /\ (AfterMember /\ gz_hdr.res # "Ok") =>
           /\ gz_hdr.field \in {"xlen", "extra"} => FlagSet(gz_hdr.got[4], 4)
           /\ gz_hdr.field = "name" => FlagSet(gz_hdr.got[4], 8)
           /\ gz_hdr.field = "comment" => FlagSet(gz_hdr.got[4], 16)
           /\ gz_hdr.field = "hcrc" => FlagSet(gz_hdr.got[4], 2)

\* member() returned a Member from a header with all four optional fields.
C27_Witness ==
    /\ AfterMember
    /\ gz_hdr.res = "Ok"
    /\ gz_hdr.got[4] = 31
    /\ Len(gz_hdr.got) = 21
    /\ member.file_name = GzName
    /\ member.file_comment = GzComment

\* member() returned a Member from a header with a comment and no name.
C27_WitnessCommentOnly ==
    /\ AfterMember
    /\ gz_hdr.res = "Ok"
    /\ gz_hdr.got[4] = 16
    /\ member.file_name = <<>>
    /\ member.file_comment = GzComment

====
